---- MODULE Spec2Model ----
(***************************************************************************)
(* A model of milli's DeleteDocuments update                               *)
(* (milli/src/update/delete_documents.rs) running inside the write         *)
(* transaction that its caller owns.                                       *)
(*                                                                         *)
(* `committed` is the index as read transactions see it, `index` is the    *)
(* index as seen through the open write transaction.  The builder calls    *)
(* delete_document / delete_documents / delete_external_id fill the        *)
(* pending set, execute then runs phase by phase in program order.         *)
(***************************************************************************)
EXTENDS Integers, Sequences, FiniteSets, TLC

\* ------------------------------------------------------------------ bounds

\* DocumentIds range over 0..MaxDocId.
MaxDocId == 2

DocIds == 0..MaxDocId

\* ------------------------------------------------------------ small helpers

None == [some |-> FALSE]

Some(v) == [some |-> TRUE, v |-> v]

\* The first id an ascending iteration of a RoaringBitmap yields.
Min(S) == CHOOSE x \in S : \A y \in S : x <= y

\* Words, prefixes and external ids are byte strings: sequences of bytes.
RECURSIVE LexLess(_, _)
LexLess(a, b) ==
    IF b = <<>> THEN FALSE
    ELSE IF a = <<>> THEN TRUE
    ELSE IF Head(a) # Head(b) THEN Head(a) < Head(b)
    ELSE LexLess(Tail(a), Tail(b))

LexLeq(a, b) == a = b \/ LexLess(a, b)

IsPrefix(p, w) == Len(p) <= Len(w) /\ SubSeq(w, 1, Len(p)) = p

RECURSIVE InsertSorted(_, _)
InsertSorted(x, s) ==
    IF s = <<>> THEN <<x>>
    ELSE IF LexLeq(x, Head(s)) THEN <<x>> \o s
    ELSE <<Head(s)>> \o InsertSorted(x, Tail(s))

RECURSIVE SortLex(_)
\* slice::sort_unstable on byte strings (duplicates are kept).
SortLex(s) == IF s = <<>> THEN <<>> ELSE InsertSorted(Head(s), SortLex(Tail(s)))

RECURSIVE SortedKeys(_)
\* The keys of a set of byte strings in the order a cursor visits them.
SortedKeys(S) ==
    IF S = {} THEN <<>>
    ELSE LET m == CHOOSE x \in S : \A y \in S : LexLeq(x, y)
         IN <<m>> \o SortedKeys(S \ {m})

Range(s) == {s[i] : i \in 1..Len(s)}

\* Removes the keys of K from the map t.
Without(t, K) == [k \in DOMAIN t \ K |-> t[k]]

\* ------------------------------------------------- documents and JSON values

\* serde_json::Value, as far as the primary key and the facets distinguish it.
JsonString(s) == [t |-> "String", s |-> s]

JsonNumber(n) == [t |-> "Number", n |-> n]

\* ASCII codes of the decimal digits.
Digit(n) == 48 + n

RECURSIVE NumberToString(_)
\* serde_json::Number::to_string for a non-negative integer.
NumberToString(n) ==
    IF n < 10 THEN <<Digit(n)>> ELSE NumberToString(n \div 10) \o <<Digit(n % 10)>>

\* The field names of the documents; "id" is the primary key.
PrimaryKey == "id"

\* FieldsIdsMap::id of the fields the indexer has seen.
FieldId(name) == CASE name = "id" -> 0 [] name = "name" -> 1 [] name = "label" -> 2

\* The vocabulary of the documents and the prefixes the index may keep.
Vocabulary == {<<1>>, <<1, 2>>, <<2>>}

PrefixUniverse == {<<1>>, <<2>>}

\* The shapes a document may have: its tokens in order, whether it has a
\* "name", its "label" (a facet value, or none), the JSON type of its primary
\* key and whether it carries a geo point.
DocShapes ==
    << [text |-> << <<1>> >>, name |-> TRUE, label |-> None,
        pk |-> "Number", geo |-> TRUE],
       [text |-> << <<1, 2>>, <<2>> >>, name |-> TRUE,
        label |-> Some(JsonString(<<115>>)), pk |-> "String", geo |-> FALSE],
       [text |-> << <<1>>, <<1, 2>> >>, name |-> FALSE,
        label |-> Some(JsonNumber(7)), pk |-> "Number", geo |-> TRUE],
       [text |-> << <<2>> >>, name |-> FALSE,
        label |-> Some(JsonString(<<116>>)), pk |-> "Number", geo |-> FALSE] >>

\* The primary key value of document d in a document of the given shape.
PkValue(d, shape) ==
    IF shape.pk = "Number" THEN JsonNumber(d) ELSE JsonString(<<100>> \o NumberToString(d))

\* A corpus maps each live DocumentId to the shape of its document.
CorporaOf(shapes) == UNION {[L -> shapes] : L \in SUBSET DocIds}

\* The corpora with at most one facet string.
Corpora == CorporaOf({1, 2, 3})

\* The corpora of documents that all have a facet string, out of two.
FacetCorpora == CorporaOf({2, 4})

ShapeOf(c, d) == DocShapes[c[d]]

FieldsOf(shape) ==
    {PrimaryKey} \cup (IF shape.name THEN {"name"} ELSE {})
                 \cup (IF shape.label.some THEN {"label"} ELSE {})

\* The obkv record of document d: FieldId -> JSON value.
Obkv(d, shape) ==
    [f \in {FieldId(n) : n \in FieldsOf(shape)} |->
        CASE f = 0 -> PkValue(d, shape)
          [] f = 1 -> JsonString(<<107>>)
          [] f = 2 -> shape.label.v]

\* The external id the indexer registered for a primary key value.
ExternalIdOfValue(v) == IF v.t = "String" THEN v.s ELSE NumberToString(v.n)

WordsOfDoc(c, d) == Range(ShapeOf(c, d).text)

DocsWithWord(c, w) == {d \in DOMAIN c : w \in WordsOfDoc(c, d)}

DocsWithPrefix(c, p) == {d \in DOMAIN c : \E w \in WordsOfDoc(c, d) : IsPrefix(p, w)}

\* A map restricted to the keys whose posting is not empty.
NonEmpty(t) == [k \in {k \in DOMAIN t : t[k] # {}} |-> t[k]]

\* The positions a token can have in a document.
TextPositions == UNION {1..Len(DocShapes[i].text) : i \in 1..Len(DocShapes)}

PairKeys(c) ==
    {<<ShapeOf(c, x[1]).text[x[2]], ShapeOf(c, x[1]).text[x[2] + 1], 1>> :
        x \in {y \in (DOMAIN c) \X TextPositions : y[2] < Len(ShapeOf(c, y[1]).text)}}

PositionKeys(c) ==
    {<<ShapeOf(c, x[1]).text[x[2]], 0, x[2], x[2]>> :
        x \in {y \in (DOMAIN c) \X TextPositions : y[2] <= Len(ShapeOf(c, y[1]).text)}}

DocsWithLabel(c, t) ==
    {d \in DOMAIN c : ShapeOf(c, d).label.some /\ ShapeOf(c, d).label.v.t = t}

\* The documents whose facet string is `value`.
DocsWithString(c, value) ==
    {d \in DocsWithLabel(c, "String") : ShapeOf(c, d).label.v.s = value}

\* The string facet map of a corpus. A level-zero key (field id, 0, string)
\* maps to (original string, docids); with two strings or more the indexer
\* adds level 1, whose keys (field id, 1, left, right) give the positions of
\* the first and last level-zero entry of a group of two and map to
\* (the bounding strings, docids of the group).
FacetIdStringDocids(c) ==
    LET values == {ShapeOf(c, d).label.v.s : d \in DocsWithLabel(c, "String")}
        sorted == SortedKeys(values)
        zero == [k \in {[level |-> 0, field_id |-> FieldId("label"), value |-> v] :
                            v \in values} |->
                    [head |-> k.value, docids |-> DocsWithString(c, k.value)]]
        groups == 0..((Len(sorted) \div 2) - 1)
        level1 == [k \in {[level |-> 1, field_id |-> FieldId("label"),
                            left |-> 2 * i, right |-> 2 * i + 1] : i \in groups} |->
                    [head |-> Some(<<sorted[k.left + 1], sorted[k.right + 1]>>),
                     docids |-> DocsWithString(c, sorted[k.left + 1])
                                    \cup DocsWithString(c, sorted[k.right + 1])]]
    IN zero @@ level1

\* The index the indexer builds for a corpus: every table is consistent with
\* the documents.
IndexOf(c) ==
    LET L == DOMAIN c
        words == UNION {WordsOfDoc(c, d) : d \in L}
        prefixes == {p \in PrefixUniverse : \E w \in words : IsPrefix(p, w)}
        names == UNION {FieldsOf(ShapeOf(c, d)) : d \in L}
        faceted == IF "label" \in names THEN {FieldId("label")} ELSE {}
    IN [ updated_at |-> 0,
         documents_ids |-> L,
         primary_key |-> IF L = {} THEN None ELSE Some(PrimaryKey),
         fields_ids_map |-> [n \in names |-> FieldId(n)],
         documents |-> [d \in L |-> Obkv(d, ShapeOf(c, d))],
         field_distribution |->
            [n \in names |-> Cardinality({d \in L : n \in FieldsOf(ShapeOf(c, d))})],
         external_documents_ids |->
            LET ids == {ExternalIdOfValue(PkValue(d, ShapeOf(c, d))) : d \in L}
            IN [e \in ids |-> CHOOSE d \in L : ExternalIdOfValue(PkValue(d, ShapeOf(c, d))) = e],
         docid_word_positions |->
            [k \in {x \in L \X Vocabulary : x[2] \in WordsOfDoc(c, x[1])} |->
                {i \in 1..Len(ShapeOf(c, k[1]).text) : ShapeOf(c, k[1]).text[i] = k[2]}],
         word_docids |-> [w \in words |-> DocsWithWord(c, w)],
         words_fst |-> words,
         word_prefix_docids |-> [p \in prefixes |-> DocsWithPrefix(c, p)],
         words_prefixes_fst |-> prefixes,
         word_pair_proximity_docids |->
            [k \in PairKeys(c) |->
                {d \in L : \E i \in 1..(Len(ShapeOf(c, d).text) - 1) :
                    /\ ShapeOf(c, d).text[i] = k[1]
                    /\ ShapeOf(c, d).text[i + 1] = k[2]}],
         word_prefix_pair_proximity_docids |->
            NonEmpty([k \in Vocabulary \X prefixes \X {1} |->
                {d \in L : \E i \in 1..(Len(ShapeOf(c, d).text) - 1) :
                    /\ ShapeOf(c, d).text[i] = k[1]
                    /\ IsPrefix(k[2], ShapeOf(c, d).text[i + 1])}]),
         word_level_position_docids |->
            [k \in PositionKeys(c) |->
                {d \in L : /\ k[3] <= Len(ShapeOf(c, d).text)
                           /\ ShapeOf(c, d).text[k[3]] = k[1]}],
         word_prefix_level_position_docids |->
            NonEmpty([k \in {<<p, 0, i, i>> : p \in prefixes, i \in TextPositions} |->
                {d \in L : /\ k[3] <= Len(ShapeOf(c, d).text)
                           /\ IsPrefix(k[1], ShapeOf(c, d).text[k[3]])}]),
         field_id_word_count_docids |->
            NonEmpty([k \in {FieldId("name")} \X TextPositions |->
                {d \in L : ShapeOf(c, d).name /\ Len(ShapeOf(c, d).text) = k[2]}]),
         facet_id_f64_docids |->
            NonEmpty([k \in {<<FieldId("label"), 0, 7, 7>>} |->
                {d \in DocsWithLabel(c, "Number") : ShapeOf(c, d).label.v.n = k[3]}]),
         facet_id_string_docids |-> FacetIdStringDocids(c),
         field_id_docid_facet_f64s |->
            {<<FieldId("label"), d, ShapeOf(c, d).label.v.n>> : d \in DocsWithLabel(c, "Number")},
         field_id_docid_facet_strings |->
            {<<FieldId("label"), d, ShapeOf(c, d).label.v.s>> : d \in DocsWithLabel(c, "String")},
         faceted_fields_ids |-> faceted,
         number_faceted_documents_ids |-> [f \in faceted |-> DocsWithLabel(c, "Number")],
         string_faceted_documents_ids |-> [f \in faceted |-> DocsWithLabel(c, "String")],
         geo_faceted_documents_ids |-> {d \in L : ShapeOf(c, d).geo},
         geo_rtree |-> {d \in L : ShapeOf(c, d).geo} ]

\* -------------------------------------------------------------------- state

VARIABLES
    committed,                    \* the index as read transactions see it
    index,                        \* the index as seen through self.wtxn
    external_documents_ids,       \* self.external_documents_ids
    documents_ids,                \* self.documents_ids: the ids to delete
    pc,                           \* position of the caller / of execute
    returned,                     \* the value the last call returned
    id_field,                     \* execute: the FieldId of the primary key
    todo,                         \* execute: ids the sweep has not visited yet
    fields_ids_distribution_diff, \* execute: FieldId -> deleted occurrences
    words,                        \* execute: Vec<(word, must_remove)>
    external_ids,                 \* execute: Vec<external id>
    store_ops,                    \* execute: the cursor and write calls issued on self.wtxn
    \* WordsLevelPositions
    levels_committed,             \* the two databases as read transactions see them
    word_level_position_docids,   \* (word, level, left, right) -> docids, through self.wtxn
    facet_field_id_value_docids,  \* the raw facet database through self.wtxn: <<key, data>>
    level_group_size,             \* self.level_group_size
    min_level_size,               \* self.min_level_size
    entries,                      \* the grenad file: <<key, data>> in insertion order
    levels_pc,                    \* position of the caller / of execute
    \* documents batch
    sink,                         \* the Cursor<Vec<u8>> the builder writes and the reader reads
    builder,                      \* the DocumentsBuilder
    reader,                       \* the DocumentsReader
    added,                        \* the calls the builder accepted, in order
    given_index,                  \* the index DocumentsBuilder::new was given
    batch_result,                 \* the value the last call returned
    batch_pc,                     \* position of the caller
    \* Geo criterion
    geo_index,                    \* what the criterion reads of the index
    geo,                          \* the Geo criterion
    excluded_candidates,          \* params.excluded_candidates of the call
    geo_pc,                       \* position of the caller / of next
    geo_result,                   \* the value the last call of next returned
    pulls,                        \* the calls of parent.next that returned a result
    pulled,                       \* the candidates of the last result of the parent
    buckets                       \* the buckets returned since that answer

deletion_vars ==
    <<committed, index, external_documents_ids, documents_ids, pc, returned,
      id_field, todo, fields_ids_distribution_diff, words, external_ids, store_ops>>

levels_vars ==
    <<levels_committed, word_level_position_docids, facet_field_id_value_docids,
      level_group_size, min_level_size, entries, levels_pc>>

batch_vars == <<sink, builder, reader, added, given_index, batch_result, batch_pc>>

geo_vars ==
    <<geo_index, geo, excluded_candidates, geo_pc, geo_result, pulls, pulled, buckets>>

vars == <<deletion_vars, levels_vars, batch_vars, geo_vars>>

locals == <<id_field, todo, fields_ids_distribution_diff, words, external_ids>>

EmptyMap == [k \in {} |-> {}]

NoReturn == [kind |-> "none"]

Ok(n) == [kind |-> "Ok", v |-> n]

Err(e) == [kind |-> "Err", v |-> e]

\* The external ids a caller may ask to delete.
ExternalIdUniverse ==
    {NumberToString(d) : d \in DocIds} \cup {<<100>> \o NumberToString(d) : d \in DocIds}

\* The phases of execute, in program order.
Executing ==
    {"sweep", "field_distribution", "external_ids", "word_docids", "words_fst",
     "word_prefix_docids", "postings", "facets", "faceted_documents_ids"}

\* WordsLevelPositions::new: the default level_group_size and min_level_size.
DefaultLevelGroupSize == 4

DefaultMinLevelSize == 5

\* No WordsLevelPositions update is under way.
LevelsIdle ==
    /\ levels_committed = [positions |-> EmptyMap, facets |-> <<>>]
    /\ word_level_position_docids = EmptyMap
    /\ facet_field_id_value_docids = <<>>
    /\ level_group_size = DefaultLevelGroupSize
    /\ min_level_size = DefaultMinLevelSize
    /\ entries = <<>>
    /\ levels_pc = "idle"

\* No documents batch is being built or read.
BatchIdle ==
    /\ sink = [bytes |-> <<>>, position |-> 0]
    /\ builder = None
    /\ reader = None
    /\ added = <<>>
    /\ given_index = <<>>
    /\ batch_result = [call |-> "none"]
    /\ batch_pc = "idle"

\* No Geo criterion is in use.
GeoIdle ==
    /\ geo_index = [documents_ids |-> {}, geo_faceted_documents_ids |-> {},
                    geo_rtree |-> None]
    /\ geo = [candidates |-> <<>>, allowed_candidates |-> {}, bucket_candidates |-> {},
              rtree |-> None]
    /\ excluded_candidates = {}
    /\ geo_pc = "idle"
    /\ geo_result = [call |-> "none"]
    /\ pulls = 0
    /\ pulled = None
    /\ buckets = <<>>

\* DeleteDocuments::new on a freshly opened write transaction.
Init ==
    \E c \in Corpora :
        /\ committed = IndexOf(c)
        /\ index = IndexOf(c)
        /\ external_documents_ids = IndexOf(c).external_documents_ids
        /\ documents_ids = {}
        /\ pc = "builder"
        /\ returned = NoReturn
        /\ id_field = None
        /\ todo = {}
        /\ fields_ids_distribution_diff = EmptyMap
        /\ words = <<>>
        /\ external_ids = <<>>
        /\ store_ops = <<>>
        /\ LevelsIdle
        /\ BatchIdle
        /\ GeoIdle

\* DeleteDocuments::new on an index whose documents all have a facet string.
InitFacets ==
    \E c \in FacetCorpora :
        /\ committed = IndexOf(c)
        /\ index = IndexOf(c)
        /\ external_documents_ids = IndexOf(c).external_documents_ids
        /\ documents_ids = {}
        /\ pc = "builder"
        /\ returned = NoReturn
        /\ id_field = None
        /\ todo = {}
        /\ fields_ids_distribution_diff = EmptyMap
        /\ words = <<>>
        /\ external_ids = <<>>
        /\ store_ops = <<>>
        /\ LevelsIdle
        /\ BatchIdle
        /\ GeoIdle

\* The index of a corpus whose fields map may not know the name of the
\* primary key: the case the lookup of execute provides for.
IndexWithFieldsMap(c, known) ==
    IF known THEN IndexOf(c)
    ELSE [IndexOf(c) EXCEPT !.fields_ids_map = Without(@, {PrimaryKey})]

\* DeleteDocuments::new on an index whose fields map knows the primary key
\* or does not.
InitAnyFieldsMap ==
    \E c \in CorporaOf({1, 2}), known \in BOOLEAN :
        /\ committed = IndexWithFieldsMap(c, known)
        /\ index = IndexWithFieldsMap(c, known)
        /\ external_documents_ids = IndexOf(c).external_documents_ids
        /\ documents_ids = {}
        /\ pc = "builder"
        /\ returned = NoReturn
        /\ id_field = None
        /\ todo = {}
        /\ fields_ids_distribution_diff = EmptyMap
        /\ words = <<>>
        /\ external_ids = <<>>
        /\ store_ops = <<>>
        /\ LevelsIdle
        /\ BatchIdle
        /\ GeoIdle

\* ---------------------------------------------------------- builder calls

DeleteDocument(docid) ==
    /\ pc = "builder"
    /\ documents_ids' = documents_ids \cup {docid}
    /\ returned' = NoReturn
    /\ UNCHANGED <<committed, index, external_documents_ids, pc, locals,
                 store_ops, levels_vars, batch_vars, geo_vars>>

DeleteDocuments(docids) ==
    /\ pc = "builder"
    /\ documents_ids' = documents_ids \cup docids
    /\ returned' = NoReturn
    /\ UNCHANGED <<committed, index, external_documents_ids, pc, locals,
                 store_ops, levels_vars, batch_vars, geo_vars>>

\* ExternalDocumentsIds::get
ExternalDocumentsIdsGet(map, external_id) ==
    IF external_id \in DOMAIN map THEN Some(map[external_id]) ELSE None

\* Mutant: a miss is unwrapped to the default DocumentId instead of returning.
DeleteExternalIdUnwrapOrDefault(external_id) ==
    LET docid == ExternalDocumentsIdsGet(external_documents_ids, external_id)
    IN /\ pc = "builder"
       /\ documents_ids' = documents_ids \cup {IF docid.some THEN docid.v ELSE 0}
       /\ returned' = [kind |-> "Option", arg |-> external_id, v |-> docid]
       /\ UNCHANGED <<committed, index, external_documents_ids, pc, locals,
                 store_ops, levels_vars, batch_vars, geo_vars>>

DeleteExternalId(external_id) ==
    LET docid == ExternalDocumentsIdsGet(external_documents_ids, external_id)
    IN /\ pc = "builder"
       /\ documents_ids' = IF docid.some THEN documents_ids \cup {docid.v} ELSE documents_ids
       /\ returned' = [kind |-> "Option", arg |-> external_id, v |-> docid]
       /\ UNCHANGED <<committed, index, external_documents_ids, pc, locals,
                 store_ops, levels_vars, batch_vars, geo_vars>>

\* ------------------------------------------------------------------ execute

\* ClearDocuments::execute: empties every table, set and bitmap of the index
\* and keeps the fields map and the primary key.
ClearDocumentsExecute(idx) ==
    [ updated_at |-> idx.updated_at,
      documents_ids |-> {},
      primary_key |-> idx.primary_key,
      fields_ids_map |-> idx.fields_ids_map,
      documents |-> EmptyMap,
      field_distribution |-> EmptyMap,
      external_documents_ids |-> EmptyMap,
      docid_word_positions |-> EmptyMap,
      word_docids |-> EmptyMap,
      words_fst |-> {},
      word_prefix_docids |-> EmptyMap,
      words_prefixes_fst |-> {},
      word_pair_proximity_docids |-> EmptyMap,
      word_prefix_pair_proximity_docids |-> EmptyMap,
      word_level_position_docids |-> EmptyMap,
      word_prefix_level_position_docids |-> EmptyMap,
      field_id_word_count_docids |-> EmptyMap,
      facet_id_f64_docids |-> EmptyMap,
      facet_id_string_docids |-> EmptyMap,
      field_id_docid_facet_f64s |-> {},
      field_id_docid_facet_strings |-> {},
      faceted_fields_ids |-> idx.faceted_fields_ids,
      number_faceted_documents_ids |-> [f \in idx.faceted_fields_ids |-> {}],
      string_faceted_documents_ids |-> [f \in idx.faceted_fields_ids |-> {}],
      geo_faceted_documents_ids |-> {},
      geo_rtree |-> {} ]

\* FieldsIdsMap::id
FieldsIdsMapId(map, name) == IF name \in DOMAIN map THEN Some(map[name]) ELSE None

\* FieldsIdsMap::name
FieldsIdsMapName(map, field_id) == CHOOSE n \in DOMAIN map : map[n] = field_id

\* Mutant: the length of the documents ids is taken after the subtraction.
DeletesEveryDocumentAfterSubtraction(current_documents_ids_len, to_delete) ==
    current_documents_ids_len - Cardinality(to_delete) = Cardinality(to_delete)

\* The test that hands the deletion over to ClearDocuments: as many ids to
\* delete as documents in the database.
DeletesEveryDocument(current_documents_ids_len, to_delete) ==
    current_documents_ids_len = Cardinality(to_delete)

\* A call issued on self.wtxn: a cursor taken on a database (range_mut,
\* prefix_iter_mut, iter_mut), del_current or put_current on it, its drop, and
\* the writes that take the transaction themselves (Index::put_*, clear).
StoreOp(op, db) == [op |-> op, db |-> db]

RECURSIVE Enumerate(_)
\* The elements of a set, one after the other.
Enumerate(S) ==
    IF S = {} THEN <<>>
    ELSE LET x == CHOOSE x \in S : TRUE IN <<x>> \o Enumerate(S \ {x})

RECURSIVE CursorWrites(_, _, _, _)
\* What a cursor over `keys` writes: del_current on the entries it deletes,
\* put_current on the entries it overwrites, nothing on the others.
CursorWrites(db, keys, deleted, overwritten) ==
    IF keys = <<>> THEN <<>>
    ELSE (IF Head(keys) \in deleted THEN <<StoreOp("del_current", db)>>
          ELSE IF Head(keys) \in overwritten THEN <<StoreOp("put_current", db)>>
          ELSE <<>>) \o CursorWrites(db, Tail(keys), deleted, overwritten)

\* Mutant: the cursor is kept alive after its loop.
CursorNotDropped(db, writes) == <<StoreOp("open", db)>> \o writes

\* The life of one cursor: it is taken, writes at its position, and is
\* dropped (drop(iter), or the end of the scope that owns it).
Cursor(db, writes) == <<StoreOp("open", db)>> \o writes \o <<StoreOp("drop", db)>>

\* execute up to the start of the document sweep: stamps updated_at, writes
\* the new documents ids, takes the ClearDocuments shortcut or resolves the
\* primary key.
ExecuteBegin ==
    LET stamped == [index EXCEPT !.updated_at = @ + 1]
        current == stamped.documents_ids
        written == [stamped EXCEPT !.documents_ids = current \ documents_ids]
        id == FieldsIdsMapId(written.fields_ids_map, written.primary_key.v)
    IN /\ pc = "builder"
       /\ IF current = {}
          THEN /\ index' = stamped
               /\ store_ops' = <<StoreOp("put", "main")>>
               /\ returned' = Ok(0)
               /\ pc' = "done"
               /\ UNCHANGED locals
          ELSE IF DeletesEveryDocument(Cardinality(current), documents_ids)
          THEN /\ index' = ClearDocumentsExecute(written)
               /\ store_ops' = <<StoreOp("put", "main"), StoreOp("put", "main"),
                                 StoreOp("clear", "index")>>
               /\ returned' = Ok(Cardinality(documents_ids))
               /\ pc' = "done"
               /\ UNCHANGED locals
          ELSE IF ~written.primary_key.some
          THEN /\ index' = written
               /\ store_ops' = <<StoreOp("put", "main"), StoreOp("put", "main")>>
               /\ returned' = Err("DatabaseMissingEntry")
               /\ pc' = "failed"
               /\ UNCHANGED locals
          ELSE IF ~id.some
          THEN /\ index' = written
               /\ store_ops' = <<StoreOp("put", "main"), StoreOp("put", "main")>>
               /\ returned' = Ok(0)
               /\ pc' = "done"
               /\ UNCHANGED locals
          ELSE /\ index' = written
               /\ store_ops' = <<StoreOp("put", "main"), StoreOp("put", "main")>>
               /\ returned' = NoReturn
               /\ pc' = IF documents_ids = {} THEN "field_distribution" ELSE "sweep"
               /\ id_field' = id
               /\ todo' = documents_ids
               /\ fields_ids_distribution_diff' = EmptyMap
               /\ words' = <<>>
               /\ external_ids' = <<>>
       /\ UNCHANGED <<committed, external_documents_ids, documents_ids,
                 levels_vars, batch_vars, geo_vars>>

\* The external id execute derives from the stored primary key value.
ExternalIdOf(content) ==
    CASE content.t = "String" -> Ok(content.s)
      [] content.t = "Number" -> Ok(NumberToString(content.n))
      [] OTHER -> Err("InvalidDocumentId")

\* *entry(field_id).or_default() += 1 for every field of the record.
CountFields(diff, obkv) ==
    [f \in DOMAIN diff \cup DOMAIN obkv |->
        (IF f \in DOMAIN diff THEN diff[f] ELSE 0) + (IF f \in DOMAIN obkv THEN 1 ELSE 0)]

\* The words of the docid_word_positions entries of docid, in key order.
WordsOfDocid(table, docid) == SortedKeys({k[2] : k \in {x \in DOMAIN table : x[1] = docid}})

\* Mutant: `if let` instead of `while let`, only the first entry is deleted.
DeleteFirstWordPosition(table, docid) ==
    LET keys == {k \in DOMAIN table : k[1] = docid}
    IN IF keys = {} THEN table
       ELSE Without(table, {CHOOSE k \in keys : \A o \in keys : LexLeq(k[2], o[2])})

\* The prefix cursor over (docid, "") with del_current on every entry.
DeleteWordPositions(table, docid) == Without(table, {k \in DOMAIN table : k[1] = docid})

\* One iteration of the sweep, for the smallest id not visited yet: reads and
\* deletes the document, then collects and deletes its word positions.
SweepDocument ==
    LET docid == Min(todo)
        found == docid \in DOMAIN index.documents
        obkv == index.documents[docid]
        has_id == found /\ id_field.v \in DOMAIN obkv
        external_id == ExternalIdOf(obkv[id_field.v])
        doc_words == WordsOfDocid(index.docid_word_positions, docid)
    IN /\ pc = "sweep"
       /\ todo # {}
       /\ IF has_id /\ external_id.kind = "Err"
          THEN /\ pc' = "failed"
               /\ returned' = external_id
               /\ fields_ids_distribution_diff' =
                    CountFields(fields_ids_distribution_diff, obkv)
               /\ store_ops' = store_ops \o Cursor("documents", <<>>)
               /\ UNCHANGED <<index, todo, words, external_ids>>
          ELSE /\ fields_ids_distribution_diff' =
                    IF found THEN CountFields(fields_ids_distribution_diff, obkv)
                    ELSE fields_ids_distribution_diff
               /\ external_ids' =
                    IF has_id THEN Append(external_ids, external_id.v) ELSE external_ids
               /\ words' = words \o [i \in 1..Len(doc_words) |->
                                        [word |-> doc_words[i], must_remove |-> FALSE]]
               /\ index' = [index EXCEPT
                    !.documents = Without(@, {docid}),
                    !.docid_word_positions = DeleteWordPositions(@, docid)]
               /\ store_ops' = store_ops
                    \o Cursor("documents",
                          IF found THEN <<StoreOp("del_current", "documents")>> ELSE <<>>)
                    \o Cursor("docid_word_positions",
                          [i \in 1..Len(doc_words) |->
                              StoreOp("del_current", "docid_word_positions")])
               /\ todo' = todo \ {docid}
               /\ pc' = IF todo' = {} THEN "field_distribution" ELSE "sweep"
               /\ UNCHANGED returned
       /\ UNCHANGED <<committed, external_documents_ids, documents_ids, id_field,
                 levels_vars, batch_vars, geo_vars>>

\* u64::checked_sub
CheckedSub(a, b) == IF b > a THEN None ELSE Some(a - b)

\* The field distribution with the deleted occurrences taken off: an entry
\* that reaches zero or would underflow is removed.
NewFieldDistribution(field_distribution, fields_ids_map, diff) ==
    LET name(f) == FieldsIdsMapName(fields_ids_map, f)
        touched == {name(f) : f \in DOMAIN diff} \cap DOMAIN field_distribution
        diff_of(n) == diff[CHOOSE f \in DOMAIN diff : name(f) = n]
        left(n) == CheckedSub(field_distribution[n], diff_of(n))
        removed == {n \in touched : ~left(n).some \/ left(n).v = 0}
    IN [n \in DOMAIN field_distribution \ removed |->
            IF n \in touched THEN left(n).v ELSE field_distribution[n]]

UpdateFieldDistribution ==
    /\ pc = "field_distribution"
    /\ index' = [index EXCEPT !.field_distribution =
            NewFieldDistribution(@, index.fields_ids_map, fields_ids_distribution_diff)]
    /\ store_ops' = Append(store_ops, StoreOp("put", "main"))
    /\ pc' = "external_ids"
    /\ UNCHANGED <<committed, external_documents_ids, documents_ids, returned, locals,
                 levels_vars, batch_vars, geo_vars>>

\* ExternalDocumentsIds::delete_ids: the map without the given external ids.
DeleteIds(map, to_delete) == Without(map, to_delete)

DeleteExternalIds ==
    LET sorted == SortLex(external_ids)
        external_ids_to_delete == Range(sorted)
    IN /\ pc = "external_ids"
       /\ external_ids' = sorted
       /\ index' = [index EXCEPT !.external_documents_ids =
                        DeleteIds(@, external_ids_to_delete)]
       /\ store_ops' = Append(store_ops, StoreOp("put", "main"))
       /\ pc' = "word_docids"
       /\ UNCHANGED <<committed, external_documents_ids, documents_ids, returned,
                      id_field, todo, fields_ids_distribution_diff, words,
                 levels_vars, batch_vars, geo_vars>>

\* The first key a prefix cursor opened at `prefix` yields, if any.
FirstWithPrefix(table, prefix) ==
    LET keys == {k \in DOMAIN table : IsPrefix(prefix, k)}
    IN IF keys = {} THEN None ELSE Some(CHOOSE k \in keys : \A o \in keys : LexLeq(k, o))

RECURSIVE RemoveFromWordDocids(_, _, _, _)
\* The loop over the sorted words from position i on: [table, words] after it.
RemoveFromWordDocids(table, ws, i, to_remove) ==
    IF i > Len(ws) THEN [table |-> table, words |-> ws]
    ELSE LET word == ws[i].word
             first == FirstWithPrefix(table, word)
             docids == table[word] \ to_remove
         IN IF first.some /\ first.v = word
            THEN IF docids = {}
                 THEN RemoveFromWordDocids(Without(table, {word}),
                        [ws EXCEPT ![i].must_remove = TRUE], i + 1, to_remove)
                 ELSE IF Cardinality(docids) # Cardinality(table[word])
                 THEN RemoveFromWordDocids([table EXCEPT ![word] = docids],
                        ws, i + 1, to_remove)
                 ELSE RemoveFromWordDocids(table, ws, i + 1, to_remove)
            ELSE RemoveFromWordDocids(table, ws, i + 1, to_remove)

RECURSIVE WordDocidsOps(_, _, _, _)
\* The store calls of the same loop: one prefix cursor per word, which
\* deletes or overwrites the entry of the word when it is the first it meets.
WordDocidsOps(table, ws, i, to_remove) ==
    IF i > Len(ws) THEN <<>>
    ELSE LET word == ws[i].word
             first == FirstWithPrefix(table, word)
             docids == table[word] \ to_remove
             writes ==
                IF first.some /\ first.v = word
                THEN IF docids = {} THEN <<StoreOp("del_current", "word_docids")>>
                     ELSE IF Cardinality(docids) # Cardinality(table[word])
                     THEN <<StoreOp("put_current", "word_docids")>>
                     ELSE <<>>
                ELSE <<>>
             after == RemoveFromWordDocids(table, SubSeq(ws, 1, i), i, to_remove).table
         IN Cursor("word_docids", writes) \o WordDocidsOps(after, ws, i + 1, to_remove)

\* words.sort_unstable(): the flags are all false, the words decide.
SortWords(ws) ==
    LET sorted == SortLex([i \in 1..Len(ws) |-> ws[i].word])
    IN [i \in 1..Len(ws) |-> [word |-> sorted[i], must_remove |-> FALSE]]

RemoveWordDocids ==
    LET after == RemoveFromWordDocids(index.word_docids, SortWords(words), 1, documents_ids)
    IN /\ pc = "word_docids"
       /\ index' = [index EXCEPT !.word_docids = after.table]
       /\ words' = after.words
       /\ store_ops' = store_ops
            \o WordDocidsOps(index.word_docids, SortWords(words), 1, documents_ids)
       /\ pc' = "words_fst"
       /\ UNCHANGED <<committed, external_documents_ids, documents_ids, returned,
                      id_field, todo, fields_ids_distribution_diff, external_ids,
                 levels_vars, batch_vars, geo_vars>>

\* Mutant: a word is removed only when every collected copy of it is flagged.
WordsToDeleteWhenAllFlagged(ws) ==
    {ws[i].word : i \in {j \in 1..Len(ws) :
        \A k \in 1..Len(ws) : ws[k].word = ws[j].word => ws[k].must_remove}}

\* The words flagged for removal from the words FST.
WordsToDelete(ws) == {ws[i].word : i \in {j \in 1..Len(ws) : ws[j].must_remove}}

\* Mutant: the new words FST is written through a transaction of its own,
\* committed at once.
RewriteWordsFstOwnTransaction ==
    /\ pc = "words_fst"
    /\ index' = [index EXCEPT !.words_fst = @ \ WordsToDelete(words)]
    /\ committed' = [committed EXCEPT !.words_fst = @ \ WordsToDelete(words)]
    /\ store_ops' = Append(store_ops, StoreOp("put", "main"))
    /\ pc' = "word_prefix_docids"
    /\ UNCHANGED <<external_documents_ids, documents_ids, returned, locals,
                 levels_vars, batch_vars, geo_vars>>

RewriteWordsFst ==
    /\ pc = "words_fst"
    /\ index' = [index EXCEPT !.words_fst = @ \ WordsToDelete(words)]
    /\ store_ops' = Append(store_ops, StoreOp("put", "main"))
    /\ pc' = "word_prefix_docids"
    /\ UNCHANGED <<committed, external_documents_ids, documents_ids, returned, locals,
                 levels_vars, batch_vars, geo_vars>>

\* Mutant: the walk deletes the emptied entries and forgets put_current.
RemoveDocidsWithoutPut(table, to_remove) ==
    [k \in {k \in DOMAIN table : table[k] \ to_remove # {}} |-> table[k]]

\* A walk over every entry of a docids table: subtract, delete the entry when
\* it becomes empty, overwrite it when its length changed.
RemoveDocids(table, to_remove) ==
    LET kept == {k \in DOMAIN table : table[k] \ to_remove # {}}
    IN [k \in kept |->
            IF Cardinality(table[k] \ to_remove) # Cardinality(table[k])
            THEN table[k] \ to_remove ELSE table[k]]

\* Mutant: emptiness is tested before the subtraction.
EmptiedBeforeSubtraction(table, to_remove) == {k \in DOMAIN table : table[k] = {}}

\* The keys the walk deletes.
Emptied(table, to_remove) == {k \in DOMAIN table : table[k] \ to_remove = {}}

\* The keys the walk overwrites.
Overwritten(table, to_remove) ==
    {k \in DOMAIN table : /\ table[k] \ to_remove # {}
                          /\ Cardinality(table[k] \ to_remove) # Cardinality(table[k])}

\* The store calls of the walk: one cursor over the whole table.
RemoveDocidsOps(db, table, to_remove) ==
    Cursor(db, CursorWrites(db, Enumerate(DOMAIN table),
                            Emptied(table, to_remove), Overwritten(table, to_remove)))

RemoveWordPrefixDocids ==
    LET prefixes_to_delete == Emptied(index.word_prefix_docids, documents_ids)
    IN /\ pc = "word_prefix_docids"
       /\ index' = [index EXCEPT
            !.word_prefix_docids = RemoveDocids(@, documents_ids),
            !.words_prefixes_fst =
                IF prefixes_to_delete # {} THEN @ \ prefixes_to_delete ELSE @]
       /\ store_ops' = store_ops
            \o RemoveDocidsOps("word_prefix_docids", index.word_prefix_docids, documents_ids)
            \o (IF prefixes_to_delete # {} THEN <<StoreOp("put", "main")>> ELSE <<>>)
       /\ pc' = "postings"
       /\ UNCHANGED <<committed, external_documents_ids, documents_ids, returned, locals,
                 levels_vars, batch_vars, geo_vars>>

RemovePostings ==
    /\ pc = "postings"
    /\ index' = [index EXCEPT
            !.word_prefix_pair_proximity_docids = RemoveDocids(@, documents_ids),
            !.word_pair_proximity_docids = RemoveDocids(@, documents_ids),
            !.word_level_position_docids = RemoveDocids(@, documents_ids),
            !.word_prefix_level_position_docids = RemoveDocids(@, documents_ids),
            !.field_id_word_count_docids = RemoveDocids(@, documents_ids)]
    /\ store_ops' = store_ops
        \o RemoveDocidsOps("word_prefix_pair_proximity_docids",
                           index.word_prefix_pair_proximity_docids, documents_ids)
        \o RemoveDocidsOps("word_pair_proximity_docids",
                           index.word_pair_proximity_docids, documents_ids)
        \o RemoveDocidsOps("word_level_position_docids",
                           index.word_level_position_docids, documents_ids)
        \o RemoveDocidsOps("word_prefix_level_position_docids",
                           index.word_prefix_level_position_docids, documents_ids)
        \o RemoveDocidsOps("field_id_word_count_docids",
                           index.field_id_word_count_docids, documents_ids)
    /\ pc' = "facets"
    /\ UNCHANGED <<committed, external_documents_ids, documents_ids, returned, locals,
                 levels_vars, batch_vars, geo_vars>>

\* FacetLevelValueU32Codec::bytes_decode succeeds on the keys of the group
\* levels only.
IsFacetLevelKey(key) == key.level # 0

\* Mutant: the entries whose key decodes as a group key are skipped.
RemoveDocidsFromLevelZeroFacetStrings(table, to_remove) ==
    LET kept == {k \in DOMAIN table :
                    IsFacetLevelKey(k) \/ table[k].docids \ to_remove # {}}
    IN [k \in kept |->
            IF IsFacetLevelKey(k) THEN table[k]
            ELSE [head |-> table[k].head, docids |-> table[k].docids \ to_remove]]

\* remove_docids_from_facet_field_id_string_docids: the two branches decode
\* the value as (group bounds, docids) or (original string, docids); both keep
\* the first component and the key.
RemoveDocidsFromFacetFieldIdStringDocids(table, to_remove) ==
    LET kept == {k \in DOMAIN table : table[k].docids \ to_remove # {}}
    IN [k \in kept |->
            IF Cardinality(table[k].docids \ to_remove) # Cardinality(table[k].docids)
            THEN IF IsFacetLevelKey(k)
                 THEN [head |-> table[k].head, docids |-> table[k].docids \ to_remove]
                 ELSE [head |-> table[k].head, docids |-> table[k].docids \ to_remove]
            ELSE table[k]]

RemoveFacets ==
    /\ pc = "facets"
    /\ index' = [index EXCEPT
            !.facet_id_f64_docids = RemoveDocids(@, documents_ids),
            !.facet_id_string_docids =
                RemoveDocidsFromFacetFieldIdStringDocids(@, documents_ids)]
    /\ store_ops' = store_ops
        \o RemoveDocidsOps("facet_id_f64_docids", index.facet_id_f64_docids, documents_ids)
        \o RemoveDocidsOps("facet_id_string_docids",
                           [k \in DOMAIN index.facet_id_string_docids |->
                               index.facet_id_string_docids[k].docids], documents_ids)
    /\ pc' = "faceted_documents_ids"
    /\ UNCHANGED <<committed, external_documents_ids, documents_ids, returned, locals,
                 levels_vars, batch_vars, geo_vars>>

\* remove_docids_from_field_id_docid_facet_value for every faceted field: the
\* keys are (field id, docid, value).
RemoveDocidsFromFieldIdDocidFacetValue(db, field_ids, to_remove) ==
    {k \in db : ~(k[1] \in field_ids /\ k[2] \in to_remove)}

\* The store calls of remove_docids_from_field_id_docid_facet_value: a prefix
\* cursor at the field id, del_current on the entries of the removed docids.
RemoveDocidsFromFieldIdDocidFacetValueOps(name, db, field_id, to_remove) ==
    LET keys == {k \in db : k[1] = field_id}
    IN Cursor(name, CursorWrites(name, Enumerate(keys),
                                 {k \in keys : k[2] \in to_remove}, {}))

RECURSIVE FacetedDocumentsIdsOps(_, _, _, _)
\* The store calls of the loop over the faceted fields.
FacetedDocumentsIdsOps(field_ids, f64s, strings, to_remove) ==
    IF field_ids = <<>> THEN <<>>
    ELSE <<StoreOp("put", "main")>>
         \o RemoveDocidsFromFieldIdDocidFacetValueOps(
                "field_id_docid_facet_f64s", f64s, Head(field_ids), to_remove)
         \o <<StoreOp("put", "main")>>
         \o RemoveDocidsFromFieldIdDocidFacetValueOps(
                "field_id_docid_facet_strings", strings, Head(field_ids), to_remove)
         \o FacetedDocumentsIdsOps(Tail(field_ids), f64s, strings, to_remove)

RemoveFacetedDocumentsIds ==
    LET fields == index.faceted_fields_ids
    IN /\ pc = "faceted_documents_ids"
       /\ index' = [index EXCEPT
            !.number_faceted_documents_ids = [f \in DOMAIN @ |->
                IF f \in fields THEN @[f] \ documents_ids ELSE @[f]],
            !.string_faceted_documents_ids = [f \in DOMAIN @ |->
                IF f \in fields THEN @[f] \ documents_ids ELSE @[f]],
            !.field_id_docid_facet_f64s =
                RemoveDocidsFromFieldIdDocidFacetValue(@, fields, documents_ids),
            !.field_id_docid_facet_strings =
                RemoveDocidsFromFieldIdDocidFacetValue(@, fields, documents_ids)]
       /\ store_ops' = store_ops
            \o FacetedDocumentsIdsOps(Enumerate(fields), index.field_id_docid_facet_f64s,
                                      index.field_id_docid_facet_strings, documents_ids)
       /\ returned' = Ok(Cardinality(documents_ids))
       /\ pc' = "done"
       /\ UNCHANGED <<committed, external_documents_ids, documents_ids, locals,
                 levels_vars, batch_vars, geo_vars>>

\* Any store operation of execute may fail; `?` returns the error to the
\* caller and leaves the write transaction as it is.
StoreError ==
    /\ pc \in Executing
    /\ pc' = "failed"
    /\ returned' = Err("heed")
    /\ UNCHANGED <<committed, index, external_documents_ids, documents_ids, locals,
                 store_ops, levels_vars, batch_vars, geo_vars>>

\* ------------------------------------------------- the caller's transaction

\* wtxn.commit(): the writes of the transaction become the index.
Commit ==
    /\ pc \in {"done", "failed"}
    /\ committed' = index
    /\ pc' = "committed"
    /\ UNCHANGED <<index, external_documents_ids, documents_ids, returned, locals,
                 store_ops, levels_vars, batch_vars, geo_vars>>

\* The caller drops the write transaction: its writes are discarded.
Abort ==
    /\ pc \in {"done", "failed"}
    /\ index' = committed
    /\ pc' = "aborted"
    /\ UNCHANGED <<committed, external_documents_ids, documents_ids, returned, locals,
                 store_ops, levels_vars, batch_vars, geo_vars>>

Next ==
    \/ \E docid \in DocIds : DeleteDocument(docid)
    \/ \E docids \in SUBSET DocIds : DeleteDocuments(docids)
    \/ \E external_id \in ExternalIdUniverse : DeleteExternalId(external_id)
    \/ ExecuteBegin
    \/ SweepDocument
    \/ UpdateFieldDistribution
    \/ DeleteExternalIds
    \/ RemoveWordDocids
    \/ RewriteWordsFst
    \/ RemoveWordPrefixDocids
    \/ RemovePostings
    \/ RemoveFacets
    \/ RemoveFacetedDocumentsIds
    \/ StoreError
    \/ Commit
    \/ Abort

Spec == Init /\ [][Next]_vars

SpecFacets == InitFacets /\ [][Next]_vars

SpecAnyFieldsMap == InitAnyFieldsMap /\ [][Next]_vars

\* --------------------------------------------------- WordsLevelPositions

\* Positions of the level-0 entries range over 0..MaxPosition.
MaxPosition == 1

\* The setters are called with values in 1..MaxParameter.
MaxParameter == 2

\* u32::to_be_bytes
BE32(n) == <<(n \div 16777216) % 256, (n \div 65536) % 256, (n \div 256) % 256, n % 256>>

\* u32::from_be_bytes
FromBE32(b) == ((b[1] * 256 + b[2]) * 256 + b[3]) * 256 + b[4]

\* StrLevelPositionCodec::bytes_encode of (word, level, left, right): the
\* bytes of the word, the level byte, then left and right in big endian.
StrLevelPositionCodecEncode(key) == key[1] \o <<key[2]>> \o BE32(key[3]) \o BE32(key[4])

\* StrLevelPositionCodec::bytes_decode: the last 8 bytes are the bounds, the
\* byte before them the level, the rest the word.
StrLevelPositionCodecDecode(bytes) ==
    LET n == Len(bytes)
    IN <<SubSeq(bytes, 1, n - 9), bytes[n - 8],
         FromBE32(SubSeq(bytes, n - 7, n - 4)), FromBE32(SubSeq(bytes, n - 3, n))>>

\* The words of the positions table.
LevelWords == {<<97>>, <<97, 98>>}

\* The postings a level-0 entry can have.
LevelPostings == {{0}, {1}}

\* The level-0 content of the table: (word, 0, position, position) -> docids
\* for some of the words and positions.
LevelZeroTables ==
    UNION {[{StrLevelPositionCodecEncode(<<x[1], 0, x[2], x[2]>>) : x \in S} -> LevelPostings] :
              S \in SUBSET (LevelWords \X (0..MaxPosition))}

\* One word with 30 level-0 entries, at positions 0..29.
ThirtyLevelZeroEntries ==
    [k \in {StrLevelPositionCodecEncode(<<(<<97>>), 0, p, p>>) : p \in 0..29} |->
        {StrLevelPositionCodecDecode(k)[3] % 2}]

\* Entries above level 0 that an earlier build left in the table.
StaleLevels == {EmptyMap, StrLevelPositionCodecEncode(<<(<<97>>), 1, 0, 1>>) :> {0, 1}}

\* The raw facet database before the update: empty, or holding one entry
\* whose key (it starts with a field id) is below or above every word.
FacetDatabases == {<<>>, << <<(<<1, 0>>), {0}>> >>, << <<(<<255, 0>>), {0}>> >>}

\* No DeleteDocuments update is under way.
DeletionIdle ==
    /\ committed = IndexOf(EmptyMap) /\ index = IndexOf(EmptyMap)
    /\ external_documents_ids = EmptyMap /\ documents_ids = {}
    /\ pc = "idle" /\ returned = NoReturn /\ id_field = None /\ todo = {}
    /\ fields_ids_distribution_diff = EmptyMap /\ words = <<>> /\ external_ids = <<>>
    /\ store_ops = <<>>

\* WordsLevelPositions::new on a freshly opened write transaction.
InitLevels ==
    /\ DeletionIdle
    /\ BatchIdle
    /\ GeoIdle
    /\ \E zero \in LevelZeroTables \cup {ThirtyLevelZeroEntries}, stale \in StaleLevels,
          facets \in FacetDatabases :
          /\ levels_committed = [positions |-> zero @@ stale, facets |-> facets]
          /\ word_level_position_docids = zero @@ stale
          /\ facet_field_id_value_docids = facets
    /\ level_group_size = DefaultLevelGroupSize
    /\ min_level_size = DefaultMinLevelSize
    /\ entries = <<>>
    /\ levels_pc = "builder"

\* cmp::max(value.get(), 2)
MaxOf(a, b) == IF a >= b THEN a ELSE b

\* WordsLevelPositions::level_group_size
LevelGroupSize(value) ==
    /\ levels_pc = "builder"
    /\ level_group_size' = MaxOf(value, 2)
    /\ UNCHANGED <<levels_committed, word_level_position_docids,
                   facet_field_id_value_docids, min_level_size, entries, levels_pc,
                   deletion_vars, batch_vars, geo_vars>>

\* WordsLevelPositions::min_level_size
MinLevelSize(value) ==
    /\ levels_pc = "builder"
    /\ min_level_size' = value
    /\ UNCHANGED <<levels_committed, word_level_position_docids,
                   facet_field_id_value_docids, level_group_size, entries, levels_pc,
                   deletion_vars, batch_vars, geo_vars>>

\* Mutant: the cursor deletes every entry it meets.
ClearEveryLevel(db) == [k \in {} |-> {}]

\* clear_non_zero_levels_positions: a cursor walks the table and deletes the
\* entries whose level is not 0.
ClearNonZeroLevelsPositions(db) ==
    [k \in {x \in DOMAIN db : StrLevelPositionCodecDecode(x)[2] = 0} |-> db[k]]

\* write_level_entry: the encoded key and the docids, as inserted in the
\* grenad writer.
WriteLevelEntry(word, level, left, right, ids) ==
    <<StrLevelPositionCodecEncode(<<word, level, left, right>>), ids>>

\* Mutant: first_level_size counts every entry of the word at the level.
FirstLevelSizeOfWord(db, word, level) ==
    Cardinality({k \in DOMAIN db : /\ StrLevelPositionCodecDecode(k)[1] = word
                                   /\ StrLevelPositionCodecDecode(k)[2] = level})

\* first_level_size: the number of entries whose key starts with the encoded
\* key (word, level, 0, 0).
FirstLevelSize(db, word, level) ==
    Cardinality({k \in DOMAIN db :
                    IsPrefix(StrLevelPositionCodecEncode(<<word, level, 0, 0>>), k)})

\* The keys of db.range(rtxn, &level_0_range), in cursor order.
Level0Range(db, word) ==
    SortedKeys({k \in DOMAIN db :
                   /\ LexLeq(StrLevelPositionCodecEncode(<<word, 0, 0, 0>>), k)
                   /\ LexLeq(k, word \o <<0, 255, 255, 255, 255, 255, 255, 255, 255>>)})

RECURSIVE GroupSizeIter(_, _, _, _, _)
\* group_size_iter: the pairs (l, level_group_size^l), l = 1, 2, ..., taken
\* while first_level_size / level_group_size^l >= min_level_size.
GroupSizeIter(l, s, first_level_size, group_size, min_size) ==
    IF first_level_size \div s >= min_size
    THEN << <<l, s>> >> \o GroupSizeIter(l + 1, s * group_size, first_level_size,
                                         group_size, min_size)
    ELSE <<>>

RECURSIVE GroupLoop(_, _, _, _, _, _, _)
\* The loop over the level-0 entries of a word for one level: i is the
\* enumerate() index, acc the locals left, right, group_docids and what was
\* written so far.
GroupLoop(db, keys, i, word, level, group_size, acc) ==
    IF i >= Len(keys) THEN acc
    ELSE LET value == StrLevelPositionCodecDecode(keys[i + 1])[3]
             docids == db[keys[i + 1]]
             bound == IF i = 0 THEN [acc EXCEPT !.left = value]
                      ELSE IF i % group_size = 0
                      THEN [acc EXCEPT
                              !.out = Append(@, WriteLevelEntry(word, level, acc.left,
                                                                acc.right, acc.group_docids)),
                              !.group_docids = {},
                              !.left = value]
                      ELSE acc
         IN GroupLoop(db, keys, i + 1, word, level, group_size,
                      [bound EXCEPT !.group_docids = @ \cup docids, !.right = value])

\* The entries written for one level of a word, the last group included.
GroupLevel(db, word, level, group_size) ==
    LET acc == GroupLoop(db, Level0Range(db, word), 0, word, level, group_size,
                         [left |-> 0, right |-> 0, group_docids |-> {}, out |-> <<>>])
    IN IF acc.group_docids # {}
       THEN Append(acc.out, WriteLevelEntry(word, level, acc.left, acc.right, acc.group_docids))
       ELSE acc.out

RECURSIVE GroupLevels(_, _, _)
GroupLevels(db, word, sizes) ==
    IF sizes = <<>> THEN <<>>
    ELSE GroupLevel(db, word, Head(sizes)[1], Head(sizes)[2]) \o GroupLevels(db, word, Tail(sizes))

RECURSIVE PositionsLevelsOf(_, _, _, _)
\* The body of the loop of compute_positions_levels, for the entries at keys.
PositionsLevelsOf(db, keys, group_size, min_size) ==
    IF keys = <<>> THEN <<>>
    ELSE LET key == StrLevelPositionCodecDecode(Head(keys))
             first_level_size == FirstLevelSize(db, key[1], key[2])
             group_size_iter == GroupSizeIter(1, group_size, first_level_size,
                                              group_size, min_size)
         IN << WriteLevelEntry(key[1], key[2], key[3], key[4], db[Head(keys)]) >>
            \o GroupLevels(db, key[1], group_size_iter)
            \o PositionsLevelsOf(db, Tail(keys), group_size, min_size)

\* compute_positions_levels: the content of the grenad file.
ComputePositionsLevels(db, group_size, min_size) ==
    PositionsLevelsOf(db, SortedKeys(DOMAIN db), group_size, min_size)

RECURSIVE WriteIntoLmdbDatabaseAppend(_, _)
\* write_into_lmdb_database with WriteMethod::Append: every entry goes after
\* the last entry of the database; a key that is not above the last key of
\* the database is refused by the store and the entries before it stay.
WriteIntoLmdbDatabaseAppend(db, es) ==
    IF es = <<>> THEN [ok |-> TRUE, db |-> db]
    ELSE IF db # <<>> /\ LexLeq(Head(es)[1], db[Len(db)][1])
    THEN [ok |-> FALSE, db |-> db]
    ELSE WriteIntoLmdbDatabaseAppend(Append(db, Head(es)), Tail(es))

\* execute, first step: clear_non_zero_levels_positions
ExecuteClearNonZeroLevels ==
    /\ levels_pc = "builder"
    /\ word_level_position_docids' = ClearNonZeroLevelsPositions(word_level_position_docids)
    /\ levels_pc' = "levels_cleared"
    /\ UNCHANGED <<levels_committed, facet_field_id_value_docids, level_group_size,
                   min_level_size, entries, deletion_vars, batch_vars, geo_vars>>

\* execute, second step: compute_positions_levels
ExecuteComputePositionsLevels ==
    /\ levels_pc = "levels_cleared"
    /\ entries' = ComputePositionsLevels(word_level_position_docids, level_group_size,
                                         min_level_size)
    /\ levels_pc' = "computed"
    /\ UNCHANGED <<levels_committed, word_level_position_docids,
                   facet_field_id_value_docids, level_group_size, min_level_size,
                   deletion_vars, batch_vars, geo_vars>>

\* execute, third step: word_level_position_docids.clear
ExecuteClear ==
    /\ levels_pc = "computed"
    /\ word_level_position_docids' = EmptyMap
    /\ levels_pc' = "cleared"
    /\ UNCHANGED <<levels_committed, facet_field_id_value_docids, level_group_size,
                   min_level_size, entries, deletion_vars, batch_vars, geo_vars>>

\* execute, last step: the entries are appended to facet_field_id_value_docids
ExecuteAppend ==
    LET written == WriteIntoLmdbDatabaseAppend(facet_field_id_value_docids, entries)
    IN /\ levels_pc = "cleared"
       /\ facet_field_id_value_docids' = written.db
       /\ levels_pc' = IF written.ok THEN "done" ELSE "failed"
       /\ UNCHANGED <<levels_committed, word_level_position_docids, level_group_size,
                      min_level_size, entries, deletion_vars, batch_vars, geo_vars>>

\* A store or file operation fails before the final phase: at the cursor of
\* clear_non_zero_levels_positions, or while the levels are computed into the
\* temporary file; `?` returns the error and drops what was computed.
ExecuteStop ==
    /\ levels_pc \in {"builder", "levels_cleared"}
    /\ levels_pc' = "stopped"
    /\ UNCHANGED <<levels_committed, word_level_position_docids,
                   facet_field_id_value_docids, level_group_size, min_level_size,
                   entries, deletion_vars, batch_vars, geo_vars>>

\* wtxn.commit() by the caller of execute
LevelsCommit ==
    /\ levels_pc \in {"done", "failed", "stopped"}
    /\ levels_committed' = [positions |-> word_level_position_docids,
                            facets |-> facet_field_id_value_docids]
    /\ levels_pc' = "committed"
    /\ UNCHANGED <<word_level_position_docids, facet_field_id_value_docids,
                   level_group_size, min_level_size, entries, deletion_vars, batch_vars, geo_vars>>

\* The caller drops the write transaction.
LevelsAbort ==
    /\ levels_pc \in {"done", "failed", "stopped"}
    /\ word_level_position_docids' = levels_committed.positions
    /\ facet_field_id_value_docids' = levels_committed.facets
    /\ levels_pc' = "aborted"
    /\ UNCHANGED <<levels_committed, level_group_size, min_level_size, entries,
                   deletion_vars, batch_vars, geo_vars>>

NextLevels ==
    \/ \E value \in 1..MaxParameter : LevelGroupSize(value)
    \/ \E value \in 1..MaxParameter : MinLevelSize(value)
    \/ ExecuteClearNonZeroLevels
    \/ ExecuteComputePositionsLevels
    \/ ExecuteClear
    \/ ExecuteAppend
    \/ ExecuteStop
    \/ LevelsCommit
    \/ LevelsAbort

SpecLevels == InitLevels /\ [][NextLevels]_vars

\* ------------------------------------------------------- documents batch

JsonBool(b) == [t |-> "Bool", b |-> b]

JsonArray(a) == [t |-> "Array", a |-> a]

\* serde_json::Map: the members <<key, value>> in key order.
JsonObject(o) == [t |-> "Object", o |-> o]

RECURSIVE JsonToVec(_), JsonElementsToVec(_), JsonMembersToVec(_)
\* serde_json::to_vec: the compact JSON text of a value.
JsonToVec(v) ==
    CASE v.t = "Bool" -> IF v.b THEN <<116, 114, 117, 101>> ELSE <<102, 97, 108, 115, 101>>
      [] v.t = "Number" -> NumberToString(v.n)
      [] v.t = "String" -> <<34>> \o v.s \o <<34>>
      [] v.t = "Array" -> <<91>> \o JsonElementsToVec(v.a) \o <<93>>
      [] v.t = "Object" -> <<123>> \o JsonMembersToVec(v.o) \o <<125>>

JsonElementsToVec(a) ==
    IF a = <<>> THEN <<>>
    ELSE IF Len(a) = 1 THEN JsonToVec(a[1])
    ELSE JsonToVec(a[1]) \o <<44>> \o JsonElementsToVec(Tail(a))

JsonMembersToVec(o) ==
    IF o = <<>> THEN <<>>
    ELSE LET member == <<34>> \o o[1][1] \o <<34, 58>> \o JsonToVec(o[1][2])
         IN IF Len(o) = 1 THEN member ELSE member \o <<44>> \o JsonMembersToVec(Tail(o))

ParseError == [ok |-> FALSE]

Parsed(v, rest) == [ok |-> TRUE, v |-> v, rest |-> rest]

\* The bytes of b after its first n bytes.
Skip(b, n) == SubSeq(b, n + 1, Len(b))

RECURSIVE ParseDigits(_, _)
\* The number spelled by the leading digits of b, after the digits of n.
ParseDigits(b, n) ==
    IF b # <<>> /\ Head(b) \in 48..57
    THEN ParseDigits(Tail(b), 10 * n + (Head(b) - 48))
    ELSE Parsed(JsonNumber(n), b)

\* A string starts at b[1] = '"': it ends at the next '"'.
ParseString(b) ==
    IF \E i \in 2..Len(b) : b[i] = 34
    THEN LET close == Min({i \in 2..Len(b) : b[i] = 34})
         IN Parsed(JsonString(SubSeq(b, 2, close - 1)), Skip(b, close))
    ELSE ParseError

RECURSIVE InsertMember(_, _)
\* Map::insert: the members stay in key order, a repeated key is replaced.
InsertMember(m, o) ==
    IF o = <<>> THEN <<m>>
    ELSE IF m[1] = Head(o)[1] THEN <<m>> \o Tail(o)
    ELSE IF LexLess(m[1], Head(o)[1]) THEN <<m>> \o o
    ELSE <<Head(o)>> \o InsertMember(m, Tail(o))

RECURSIVE ParseValue(_), ParseElements(_, _), ParseMembers(_, _)
\* serde_json's deserializer on the leading value of b.
ParseValue(b) ==
    IF b = <<>> THEN ParseError
    ELSE CASE Head(b) = 116 ->
                IF IsPrefix(<<116, 114, 117, 101>>, b)
                THEN Parsed(JsonBool(TRUE), Skip(b, 4)) ELSE ParseError
           [] Head(b) = 102 ->
                IF IsPrefix(<<102, 97, 108, 115, 101>>, b)
                THEN Parsed(JsonBool(FALSE), Skip(b, 5)) ELSE ParseError
           [] Head(b) = 34 -> ParseString(b)
           [] Head(b) \in 48..57 -> ParseDigits(b, 0)
           [] Head(b) = 91 ->
                IF Len(b) >= 2 /\ b[2] = 93
                THEN Parsed(JsonArray(<<>>), Skip(b, 2)) ELSE ParseElements(Tail(b), <<>>)
           [] Head(b) = 123 ->
                IF Len(b) >= 2 /\ b[2] = 125
                THEN Parsed(JsonObject(<<>>), Skip(b, 2)) ELSE ParseMembers(Tail(b), <<>>)
           [] OTHER -> ParseError

ParseElements(b, acc) ==
    LET e == ParseValue(b)
    IN IF ~e.ok \/ e.rest = <<>> THEN ParseError
       ELSE IF Head(e.rest) = 44 THEN ParseElements(Tail(e.rest), Append(acc, e.v))
       ELSE IF Head(e.rest) = 93 THEN Parsed(JsonArray(Append(acc, e.v)), Tail(e.rest))
       ELSE ParseError

ParseMembers(b, acc) ==
    IF b = <<>> \/ Head(b) # 34 THEN ParseError
    ELSE LET k == ParseString(b)
         IN IF ~k.ok \/ k.rest = <<>> \/ Head(k.rest) # 58 THEN ParseError
            ELSE LET e == ParseValue(Tail(k.rest))
                 IN IF ~e.ok \/ e.rest = <<>> THEN ParseError
                    ELSE IF Head(e.rest) = 44
                    THEN ParseMembers(Tail(e.rest), InsertMember(<<k.v.s, e.v>>, acc))
                    ELSE IF Head(e.rest) = 125
                    THEN Parsed(JsonObject(InsertMember(<<k.v.s, e.v>>, acc)), Tail(e.rest))
                    ELSE ParseError

\* serde_json::from_slice: the whole slice is one value.
JsonFromSlice(b) ==
    LET p == ParseValue(b)
    IN IF p.ok /\ p.rest = <<>> THEN Some(p.v) ELSE None

MinOf(a, b) == IF a <= b THEN a ELSE b

\* u16::to_be_bytes of a FieldId
BE16(n) == <<(n \div 256) % 256, n % 256>>

\* u64::to_be_bytes
BE64(n) == <<0, 0, 0, 0>> \o BE32(n)

\* u64::from_be_bytes
FromBE64(b) ==
    (((((((b[1] * 256 + b[2]) * 256 + b[3]) * 256 + b[4]) * 256 + b[5]) * 256 + b[6]) * 256
        + b[7]) * 256) + b[8]

\* u64::to_le_bytes, as bincode writes a usize or a length
LE64(n) == <<n % 256, (n \div 256) % 256, (n \div 65536) % 256, (n \div 16777216) % 256,
             0, 0, 0, 0>>

\* u64::from_le_bytes
FromLE64(b) ==
    (((((((b[8] * 256 + b[7]) * 256 + b[6]) * 256 + b[5]) * 256 + b[4]) * 256 + b[3]) * 256
        + b[2]) * 256) + b[1]

RECURSIVE Varint(_)
\* obkv's varint encoding of a value length: 7 bits per byte, low bits first.
Varint(n) == IF n < 128 THEN <<n>> ELSE <<128 + (n % 128)>> \o Varint(n \div 128)

RECURSIVE VarintDecode(_)
\* The length a varint spells and the number of bytes it takes.
VarintDecode(b) ==
    IF Head(b) < 128 THEN [v |-> Head(b), len |-> 1]
    ELSE LET r == VarintDecode(Tail(b))
         IN [v |-> (Head(b) - 128) + 128 * r.v, len |-> 1 + r.len]

RECURSIVE ObkvEncode(_)
\* obkv::KvWriter: for each <<FieldId, value>>, in FieldId order, the key in
\* big endian, the length of the value, the value.
ObkvEncode(fields) ==
    IF fields = <<>> THEN <<>>
    ELSE BE16(fields[1][1]) \o Varint(Len(fields[1][2])) \o fields[1][2]
         \o ObkvEncode(Tail(fields))

RECURSIVE ObkvDecode(_)
\* obkv::KvReader::iter: the <<FieldId, value>> pairs of a record.
ObkvDecode(b) ==
    IF Len(b) < 3 THEN <<>>
    ELSE LET l == VarintDecode(Skip(b, 2))
             from == 2 + l.len
         IN << <<b[1] * 256 + b[2], SubSeq(b, from + 1, from + l.v)>> >>
            \o ObkvDecode(Skip(b, from + l.v))

\* AdditionIndex: FieldId -> name.
EmptyIndex == [f \in {} |-> <<>>]

RECURSIVE BincodeIndexEntries(_, _)
BincodeIndexEntries(idx, order) ==
    IF order = <<>> THEN <<>>
    ELSE <<Head(order) % 256, (Head(order) \div 256) % 256>>
         \o LE64(Len(idx[Head(order)])) \o idx[Head(order)]
         \o BincodeIndexEntries(idx, Tail(order))

\* bincode::serialize_into of DocumentsMetadata: the count, then the map as
\* its length and its (FieldId, name) entries in the order the hash map
\* yields them.
BincodeSerialize(meta, order) ==
    LE64(meta.count) \o LE64(Len(order)) \o BincodeIndexEntries(meta.index, order)

RECURSIVE BincodeIndexDecode(_, _, _)
BincodeIndexDecode(b, n, idx) ==
    IF n = 0 THEN Some(idx)
    ELSE IF Len(b) < 10 THEN None
    ELSE LET len == FromLE64(SubSeq(b, 3, 10))
         IN IF Len(b) < 10 + len THEN None
            ELSE BincodeIndexDecode(Skip(b, 10 + len), n - 1,
                                    ((b[1] + 256 * b[2]) :> SubSeq(b, 11, 10 + len)) @@ idx)

\* Mutant: the last entry of the index is not read.
BincodeDeserializeButLast(b) ==
    IF Len(b) < 16 THEN None
    ELSE LET n == FromLE64(SubSeq(b, 9, 16))
             idx == BincodeIndexDecode(Skip(b, 16), IF n > 0 THEN n - 1 ELSE 0, EmptyIndex)
         IN IF idx.some
            THEN Some([count |-> FromLE64(SubSeq(b, 1, 8)), index |-> idx.v])
            ELSE None

\* bincode::deserialize of DocumentsMetadata (trailing bytes are allowed).
BincodeDeserialize(b) ==
    IF Len(b) < 16 THEN None
    ELSE LET idx == BincodeIndexDecode(Skip(b, 16), FromLE64(SubSeq(b, 9, 16)), EmptyIndex)
         IN IF idx.some
            THEN Some([count |-> FromLE64(SubSeq(b, 1, 8)), index |-> idx.v])
            ELSE None

\* io::Write for Cursor<Vec<u8>>: the bytes go at the position, over what is
\* there and past the end, and the position moves after them.
CursorWrite(cursor, buf) ==
    LET gap == IF cursor.position > Len(cursor.bytes)
               THEN [i \in 1..(cursor.position - Len(cursor.bytes)) |-> 0] ELSE <<>>
        old == cursor.bytes \o gap
    IN [bytes |-> SubSeq(old, 1, cursor.position) \o buf
                  \o Skip(old, MinOf(Len(old), cursor.position + Len(buf))),
        position |-> cursor.position + Len(buf)]

\* io::Seek for Cursor, SeekFrom::Start
CursorSeek(cursor, position) == [cursor EXCEPT !.position = position]

\* Mutant: the bytes written are not counted.
ByteCounterWriteUncounted(counter, buf) ==
    [writer |-> CursorWrite(counter.writer, buf), count |-> counter.count]

\* io::Write for ByteCounter: writes through and counts the bytes written.
ByteCounterWrite(counter, buf) ==
    [writer |-> CursorWrite(counter.writer, buf), count |-> counter.count + Len(buf)]

\* The builder accepts at most MaxAdds calls of add_documents and
\* add_raw_document.
MaxAdds == 2

\* next_document_with_index is called at most MaxPastEnd times more than the
\* batch has records.
MaxPastEnd == 2

\* The FieldId of a top-level key: the one the dictionary has for the name,
\* or the next one.
FieldIdOfName(idx, name) ==
    IF \E f \in DOMAIN idx : idx[f] = name
    THEN CHOOSE f \in DOMAIN idx : idx[f] = name
    ELSE Cardinality(DOMAIN idx)

RECURSIVE SerializeFields(_, _, _)
\* The members of a document, in order: each key gets its FieldId and each
\* value is kept as its JSON text.
SerializeFields(members, idx, fields) ==
    IF members = <<>> THEN [index |-> idx, fields |-> fields]
    ELSE LET fid == FieldIdOfName(idx, Head(members)[1])
         IN SerializeFields(Tail(members), (fid :> Head(members)[1]) @@ idx,
                            (fid :> JsonToVec(Head(members)[2])) @@ fields)

RECURSIVE SortedFields(_)
\* The <<FieldId, value>> pairs of a map in FieldId order.
SortedFields(fields) ==
    IF DOMAIN fields = {} THEN <<>>
    ELSE LET f == Min(DOMAIN fields)
         IN << <<f, fields[f]>> >> \o SortedFields(Without(fields, {f}))

\* The serializer on a mapping: the record is written behind its length and
\* counted.
SerializeMap(ser, document) ==
    LET r == SerializeFields(document.o, ser.index, EmptyMap)
        record == ObkvEncode(SortedFields(r.fields))
    IN [writer |-> ByteCounterWrite(ByteCounterWrite(ser.writer, BE32(Len(record))), record),
        index |-> r.index,
        count |-> ser.count + 1]

RECURSIVE SerializeSeq(_, _)
\* The serializer on a sequence: its elements in order; an element that is
\* not a mapping stops it with InvalidDocumentFormat.
SerializeSeq(ser, elements) ==
    IF elements = <<>> THEN [ser |-> ser, ok |-> TRUE]
    ELSE IF Head(elements).t = "Object"
    THEN SerializeSeq(SerializeMap(ser, Head(elements)), Tail(elements))
    ELSE [ser |-> ser, ok |-> FALSE]

\* document.serialize(&mut self.serializer)
Serialize(ser, value) ==
    CASE value.t = "Object" -> [ser |-> SerializeMap(ser, value), ok |-> TRUE]
      [] value.t = "Array" -> SerializeSeq(ser, value.a)
      [] OTHER -> [ser |-> ser, ok |-> FALSE]

\* DocumentsBuilder::new: the serializer over a ByteCounter that has written
\* the 8 bytes kept for the offset of the metadata.
DocumentsBuilderNew(writer, idx) ==
    [writer |-> ByteCounterWrite([writer |-> writer, count |-> 0], BE64(0)),
     index |-> idx,
     count |-> 0]

\* Mutant: the raw document is written but not counted.
AddRawDocumentUncounted(ser, document) ==
    [ser EXCEPT !.writer = ByteCounterWrite(ByteCounterWrite(@, BE32(Len(document))), document)]

\* DocumentsBuilder::add_raw_document
AddRawDocumentTo(ser, document) ==
    [ser EXCEPT !.writer = ByteCounterWrite(ByteCounterWrite(@, BE32(Len(document))), document),
                !.count = @ + 1]

\* DocumentsBuilder::finish: the metadata where the writer stands, then the
\* counted offset at the start of the writer.
FinishWriter(ser, order) ==
    LET offset == ser.writer.count
        meta == [count |-> ser.count, index |-> ser.index]
        after == CursorWrite(ser.writer.writer, BincodeSerialize(meta, order))
    IN CursorWrite(CursorSeek(after, 0), BE64(offset))

RECURSIVE FillBuf(_, _, _)
\* BufReader: when its buffer is used up it fetches up to 8192 bytes from the
\* source; fetched is the position of the source.
FillBuf(fetched, upto, total) ==
    IF fetched >= upto \/ fetched >= total THEN fetched
    ELSE FillBuf(MinOf(total, fetched + 8192), upto, total)

\* Mutant: the reader is left at the start of the source, on the offset.
DocumentsReaderFromReaderAtStart(bytes) ==
    IF Len(bytes) < 8 THEN Err("Io")
    ELSE LET meta_offset == FromBE64(SubSeq(bytes, 1, 8))
             metadata == BincodeDeserialize(Skip(bytes, MinOf(meta_offset, Len(bytes))))
         IN IF ~metadata.some THEN Err("Serialization")
            ELSE Ok([position |-> 0, fetched |-> 0, metadata |-> metadata.v,
                     buffer |-> <<>>, seen_documents |-> 0])

\* DocumentsReader::from_reader on a cursor over the bytes.
DocumentsReaderFromReader(bytes) ==
    IF Len(bytes) < 8 THEN Err("Io")
    ELSE LET meta_offset == FromBE64(SubSeq(bytes, 1, 8))
             metadata == BincodeDeserialize(Skip(bytes, MinOf(meta_offset, Len(bytes))))
         IN IF ~metadata.some THEN Err("Serialization")
            ELSE Ok([position |-> 8, fetched |-> 8, metadata |-> metadata.v,
                     buffer |-> <<>>, seen_documents |-> 0])

\* Mutant: one more document than the metadata counts is read.
HasNextDocumentInclusive(rd) == rd.seen_documents <= rd.metadata.count

\* next_document_with_index: the test that there is a document left.
HasNextDocument(rd) == rd.seen_documents < rd.metadata.count

\* DocumentsReader::next_document_with_index on the bytes of the source: the
\* reader after the call and what the call returns.
NextDocumentOf(rd, bytes) ==
    IF HasNextDocument(rd)
    THEN LET start == rd.position + 4
             got == FillBuf(rd.fetched, start, Len(bytes))
         IN IF got < start
            THEN [reader |-> [rd EXCEPT !.fetched = got, !.position = got],
                  result |-> Err("UnexpectedEof")]
            ELSE LET doc_len == FromBE32(SubSeq(bytes, rd.position + 1, start))
                     all == FillBuf(got, start + doc_len, Len(bytes))
                 IN IF all < start + doc_len
                    THEN [reader |-> [rd EXCEPT !.fetched = all, !.position = all,
                                                !.buffer = [i \in 1..doc_len |-> 0]],
                          result |-> Err("UnexpectedEof")]
                    ELSE [reader |-> [rd EXCEPT !.fetched = all,
                                                !.position = start + doc_len,
                                                !.buffer = SubSeq(bytes, start + 1, start + doc_len),
                                                !.seen_documents = @ + 1],
                          result |-> Ok(Some([index |-> rd.metadata.index,
                                              document |-> SubSeq(bytes, start + 1,
                                                                  start + doc_len)]))]
    ELSE [reader |-> rd, result |-> Ok(None)]

\* DocumentsReader::len
DocumentsReaderLen(rd) == rd.metadata.count

\* DocumentsReader::index
DocumentsReaderIndex(rd) == rd.metadata.index

\* The documents given to the builder: {"id":1}, {"id":2,"n":{"a":[1,true]}}
\* and {"n":[],"t":"x"}.
DocumentA == JsonObject(<< <<(<<105, 100>>), JsonNumber(1)>> >>)

DocumentB ==
    JsonObject(<< <<(<<105, 100>>), JsonNumber(2)>>,
                  <<(<<110>>), JsonObject(<< <<(<<97>>),
                                  JsonArray(<<JsonNumber(1), JsonBool(TRUE)>>)>> >>)>> >>)

DocumentC == JsonObject(<< <<(<<110>>), JsonArray(<<>>)>>, <<(<<116>>), JsonString(<<120>>)>> >>)

\* The values given to add_documents: a mapping, a sequence of mappings (two
\* or none), a scalar, a sequence that holds a sequence.
BatchValues ==
    {DocumentA, DocumentB, DocumentC,
     JsonArray(<<DocumentA, DocumentB>>), JsonArray(<<>>),
     JsonNumber(7), JsonArray(<<DocumentA, JsonArray(<<DocumentA>>)>>)}

\* The records given to add_raw_document: the obkv of field 0 with value 5.
RawDocuments == {ObkvEncode(<< <<0, <<53>>>> >>)}

\* The index given to DocumentsBuilder::new: none or "id".
InitialIndexes == {EmptyIndex, 0 :> <<105, 100>>}

\* The orders in which a hash map can yield its keys.
Orderings(S) == {o \in [1..Cardinality(S) -> S] : Range(o) = S}

\* Io::Cursor::new(Vec::new()), before DocumentsBuilder::new.
InitBatch ==
    /\ DeletionIdle
    /\ LevelsIdle
    /\ GeoIdle
    /\ sink = [bytes |-> <<>>, position |-> 0]
    /\ builder = None
    /\ reader = None
    /\ added = <<>>
    /\ given_index = <<>>
    /\ batch_result = [call |-> "none"]
    /\ batch_pc = "start"

\* self.serializer, over the caller's cursor.
Serializer ==
    [writer |-> [writer |-> sink, count |-> builder.v.byte_count],
     index |-> builder.v.index,
     count |-> builder.v.count]

\* The builder and the cursor after the serializer wrote.
Serialized(ser) ==
    /\ sink' = ser.writer.writer
    /\ builder' = Some([byte_count |-> ser.writer.count, index |-> ser.index,
                        count |-> ser.count])

\* DocumentsBuilder::new(&mut cursor, index)
BuilderNew(idx) ==
    /\ batch_pc = "start"
    /\ Serialized(DocumentsBuilderNew(sink, idx))
    /\ batch_result' = [call |-> "new", result |-> Ok(<<>>)]
    /\ given_index' = idx
    /\ batch_pc' = "building"
    /\ UNCHANGED <<reader, added, deletion_vars, levels_vars, geo_vars>>

\* Mutant: the error of the serializer is dropped.
AddDocumentsIgnoringError(value) ==
    LET r == Serialize(Serializer, value)
    IN /\ batch_pc = "building"
       /\ Len(added) < MaxAdds
       /\ Serialized(r.ser)
       /\ added' = Append(added, [call |-> "add_documents", arg |-> value, ok |-> TRUE])
       /\ batch_result' = [call |-> "add_documents", result |-> Ok(<<>>)]
       /\ UNCHANGED <<reader, given_index, batch_pc, deletion_vars, levels_vars, geo_vars>>

\* DocumentsBuilder::add_documents(value)
AddDocuments(value) ==
    LET r == Serialize(Serializer, value)
    IN /\ batch_pc = "building"
       /\ Len(added) < MaxAdds
       /\ Serialized(r.ser)
       /\ added' = Append(added, [call |-> "add_documents", arg |-> value, ok |-> r.ok])
       /\ batch_result' = [call |-> "add_documents",
                           result |-> IF r.ok THEN Ok(<<>>) ELSE Err("InvalidDocumentFormat")]
       /\ UNCHANGED <<reader, given_index, batch_pc, deletion_vars, levels_vars, geo_vars>>

\* DocumentsBuilder::add_raw_document(document); the fields of the document
\* are in the index, as the caller must ensure.
AddRawDocument(document) ==
    /\ batch_pc = "building"
    /\ Len(added) < MaxAdds
    /\ \A i \in DOMAIN ObkvDecode(document) : ObkvDecode(document)[i][1] \in DOMAIN builder.v.index
    /\ Serialized(AddRawDocumentTo(Serializer, document))
    /\ added' = Append(added, [call |-> "add_raw_document", arg |-> document, ok |-> TRUE])
    /\ batch_result' = [call |-> "add_raw_document", result |-> Ok(<<>>)]
    /\ UNCHANGED <<reader, given_index, batch_pc, deletion_vars, levels_vars, geo_vars>>

\* DocumentsBuilder::finish(); order is the order in which the index yields
\* its entries to the serializer of the metadata.
Finish ==
    /\ batch_pc = "building"
    /\ \E order \in Orderings(DOMAIN builder.v.index) :
          sink' = FinishWriter(Serializer, order)
    /\ builder' = None
    /\ batch_result' = [call |-> "finish", result |-> Ok(<<>>),
                        meta |-> [count |-> builder.v.count, index |-> builder.v.index]]
    /\ batch_pc' = "finished"
    /\ UNCHANGED <<reader, added, given_index, deletion_vars, levels_vars, geo_vars>>

\* DocumentsReader::from_reader(Cursor::new(cursor.into_inner()))
FromReader ==
    LET r == DocumentsReaderFromReader(sink.bytes)
    IN /\ batch_pc = "finished"
       /\ reader' = IF r.kind = "Ok" THEN Some(r.v) ELSE None
       /\ batch_result' = [call |-> "from_reader", result |-> r]
       /\ batch_pc' = IF r.kind = "Ok" THEN "reading" ELSE "failed"
       /\ UNCHANGED <<sink, builder, added, given_index, deletion_vars, levels_vars, geo_vars>>

\* The number of calls of next_document_with_index so far.
NextCalls == IF batch_result.call = "next_document_with_index" THEN batch_result.n ELSE 0

\* DocumentsReader::next_document_with_index()
NextDocumentWithIndex ==
    LET r == NextDocumentOf(reader.v, sink.bytes)
    IN /\ batch_pc = "reading"
       /\ NextCalls < DocumentsReaderLen(reader.v) + MaxPastEnd
       /\ reader' = Some(r.reader)
       /\ batch_result' = [call |-> "next_document_with_index", n |-> NextCalls + 1,
                           result |-> r.result]
       /\ UNCHANGED <<sink, builder, added, given_index, batch_pc, deletion_vars, levels_vars, geo_vars>>

NextBatch ==
    \/ \E idx \in InitialIndexes : BuilderNew(idx)
    \/ \E value \in BatchValues : AddDocuments(value)
    \/ \E document \in RawDocuments : AddRawDocument(document)
    \/ Finish
    \/ FromReader
    \/ NextDocumentWithIndex

SpecBatch == InitBatch /\ [][NextBatch]_vars

\* ------------------------------------------------------- the Geo criterion

\* Geo::new: the geo structures the criterion loads from the index; its
\* iterator of candidates starts empty.
GeoNew(idx) ==
    [candidates |-> <<>>,
     allowed_candidates |-> idx.geo_faceted_documents_ids,
     bucket_candidates |-> {},
     rtree |-> idx.geo_rtree]

\* The documents of a search range over 0..MaxGeoDocId.
MaxGeoDocId == 1

GeoDocIds == 0..MaxGeoDocId

\* The parent criterion gives at most MaxPulls results.
MaxPulls == 1

\* For the criterion an RTree is what nearest_neighbor_iter(&point) yields:
\* the documents of its points from the nearest to the farthest.
NearestNeighborOrders(S) == {o \in [1..Cardinality(S) -> S] : Range(o) = S}

\* What the criterion reads of an index: its documents, those of them with
\* a geo point, and the RTree of these (none without any).
GeoIndexes ==
    UNION {{[documents_ids |-> GeoDocIds, geo_faceted_documents_ids |-> G, geo_rtree |-> r] :
               r \in IF G = {} THEN {None}
                     ELSE {Some(o) : o \in NearestNeighborOrders(G)}} :
           G \in SUBSET GeoDocIds}

\* A query tree, as the documents resolve_query_tree finds for it.
QueryTrees == {{0}}

\* The results parent.next can give.
CriterionResults ==
    [query_tree : {None} \cup {Some(qt) : qt \in QueryTrees},
     candidates : {None} \cup {Some(S) : S \in SUBSET GeoDocIds},
     filtered_candidates : {None} \cup {Some(GeoDocIds \ {d}) : d \in GeoDocIds},
     bucket_candidates : {None, Some(GeoDocIds)}]

\* resolve_query_tree
ResolveQueryTree(qt) == qt

\* Mutant: every point of the RTree is kept, candidate or not.
GeoPointOfEveryNeighbor(rtree, candidates) == [i \in 1..Len(rtree) |-> {rtree[i]}]

RECURSIVE GeoPoint(_, _)
\* geo_point: the points from the nearest on; one whose document is among
\* the candidates takes it out of them and gives a bitmap of that document.
GeoPoint(rtree, candidates) ==
    IF rtree = <<>> THEN <<>>
    ELSE IF Head(rtree) \in candidates
    THEN << {Head(rtree)} >> \o GeoPoint(Tail(rtree), candidates \ {Head(rtree)})
    ELSE GeoPoint(Tail(rtree), candidates)

\* Geo::new over an index, before the first call of next.
InitGeo ==
    /\ DeletionIdle
    /\ LevelsIdle
    /\ BatchIdle
    /\ \E idx \in GeoIndexes :
          /\ geo_index = idx
          /\ geo = GeoNew(idx)
    /\ excluded_candidates = {}
    /\ geo_pc = "idle"
    /\ geo_result = [call |-> "none"]
    /\ pulls = 0
    /\ pulled = None
    /\ buckets = <<>>

\* The caller calls next with its params.
GeoNextCall(excluded) ==
    /\ geo_pc = "idle"
    /\ geo_pc' = "next"
    /\ excluded_candidates' = excluded
    /\ UNCHANGED <<geo_index, geo, geo_result, pulls, pulled, buckets,
                   deletion_vars, levels_vars, batch_vars>>

\* next, self.candidates gives a bitmap: it is returned without the excluded
\* candidates.
GeoNextCandidates ==
    LET candidates == Head(geo.candidates) \ excluded_candidates
    IN /\ geo_pc = "next"
       /\ geo.candidates # <<>>
       /\ geo' = [geo EXCEPT !.candidates = Tail(@),
                             !.allowed_candidates = @ \ candidates]
       /\ geo_result' = [call |-> "next",
                         result |-> Ok(Some([query_tree |-> None,
                                             candidates |-> Some(candidates),
                                             filtered_candidates |-> None,
                                             bucket_candidates |->
                                                Some(geo.bucket_candidates)]))]
       /\ buckets' = Append(buckets, candidates)
       /\ geo_pc' = "idle"
       /\ UNCHANGED <<geo_index, excluded_candidates, pulls, pulled,
                      deletion_vars, levels_vars, batch_vars>>

\* next, self.candidates is through and the parent gives a result: its
\* candidates are resolved and filtered, and unless none is left the points
\* of the allowed ones become self.candidates; the loop goes on.
GeoNextParent(result) ==
    LET resolved == IF result.candidates.some THEN result.candidates.v
                    ELSE IF result.query_tree.some
                    THEN ResolveQueryTree(result.query_tree.v)
                    ELSE geo_index.documents_ids
        candidates == IF result.filtered_candidates.some
                      THEN resolved \cap result.filtered_candidates.v ELSE resolved
        bucket_candidates == geo.bucket_candidates \cup
            (IF result.bucket_candidates.some THEN result.bucket_candidates.v
             ELSE candidates)
        allowed_candidates == candidates \ excluded_candidates
    IN /\ geo_pc = "next"
       /\ geo.candidates = <<>>
       /\ pulls < MaxPulls
       /\ pulls' = pulls + 1
       /\ geo' = IF candidates = {}
                 THEN [geo EXCEPT !.bucket_candidates = bucket_candidates]
                 ELSE [geo EXCEPT
                        !.bucket_candidates = bucket_candidates,
                        !.allowed_candidates = allowed_candidates,
                        !.candidates = IF geo.rtree.some
                                       THEN GeoPoint(geo.rtree.v, allowed_candidates)
                                       ELSE <<>>]
       /\ pulled' = Some(candidates)
       /\ buckets' = <<>>
       /\ UNCHANGED <<geo_index, excluded_candidates, geo_pc, geo_result,
                      deletion_vars, levels_vars, batch_vars>>

\* next, self.candidates is through and the parent has no more result.
GeoNextParentEnd ==
    /\ geo_pc = "next"
    /\ geo.candidates = <<>>
    /\ geo_result' = [call |-> "next", result |-> Ok(None)]
    /\ pulled' = None
    /\ buckets' = <<>>
    /\ geo_pc' = "idle"
    /\ UNCHANGED <<geo_index, geo, excluded_candidates, pulls,
                   deletion_vars, levels_vars, batch_vars>>

\* next, the parent or the resolution of its query tree fails: `?` returns
\* the error before the criterion has changed.
GeoNextError ==
    /\ geo_pc = "next"
    /\ geo.candidates = <<>>
    /\ geo_result' = [call |-> "next", result |-> Err("parent")]
    /\ pulled' = None
    /\ buckets' = <<>>
    /\ geo_pc' = "idle"
    /\ UNCHANGED <<geo_index, geo, excluded_candidates, pulls,
                   deletion_vars, levels_vars, batch_vars>>

NextGeo ==
    \/ \E excluded \in SUBSET GeoDocIds : GeoNextCall(excluded)
    \/ GeoNextCandidates
    \/ \E result \in CriterionResults : GeoNextParent(result)
    \/ GeoNextParentEnd
    \/ GeoNextError

SpecGeo == InitGeo /\ [][NextGeo]_vars

\* ------------------------------------------------------------------ claims
\* Until the caller commits, `committed` is the index before execute.

LiveBefore == committed.documents_ids

\* execute returned Ok after running the whole pipeline (no early return, no
\* ClearDocuments shortcut).
DeletedOnNonBulkPath ==
    /\ pc = "done"
    /\ LiveBefore # {}
    /\ Cardinality(LiveBefore) # Cardinality(documents_ids)

\* The external id the document d had before execute.
ExternalIdBefore(d) ==
    CHOOSE e \in DOMAIN committed.external_documents_ids :
        committed.external_documents_ids[e] = d

\* The docids tables whose values are plain postings.
PostingTables(idx) ==
    << idx.word_docids, idx.word_prefix_docids, idx.word_pair_proximity_docids,
       idx.word_prefix_pair_proximity_docids, idx.word_level_position_docids,
       idx.word_prefix_level_position_docids, idx.field_id_word_count_docids,
       idx.facet_id_f64_docids >>

\* C1: for a non-empty live set L and any requested set D, after execute
\* returns Ok the live set of the index is exactly L \ D.
C1_LiveSetIsDifference ==
    (pc = "done" /\ LiveBefore # {}) =>
        index.documents_ids = LiveBefore \ documents_ids

\* C2 (as claimed): when execute fails, the index observed afterwards is
\* identical to the index before the call.
C2_FailureLeavesIndexUnchanged == pc = "failed" => index = committed

\* C2 (amended): no step of the builder or of execute changes the index that
\* read transactions see, and once the caller has dropped the transaction the
\* index is the one before the call; the partial writes of a failed execute
\* live in the caller's write transaction only.
C2_FailureRolledBackByCaller ==
    /\ [][(pc \in {"builder"} \cup Executing) => (committed' = committed)]_vars
    /\ [](pc = "aborted" => index = committed)

\* C2 witness: execute failed in the middle of the sweep, after the live set
\* and an earlier document record were written.
C2_Witness ==
    /\ pc = "failed"
    /\ todo # {}
    /\ index.documents_ids # committed.documents_ids
    /\ DOMAIN index.documents # DOMAIN committed.documents

\* C3: after execute on the non-bulk path, every posting of the word, prefix,
\* pair proximity, level position, word count and numeric facet tables is
\* disjoint from D.
C3_PostingsDisjointFromDeleted ==
    DeletedOnNonBulkPath =>
        \A i \in 1..Len(PostingTables(index)) :
            \A k \in DOMAIN PostingTables(index)[i] :
                PostingTables(index)[i][k] \cap documents_ids = {}

\* C3 witness: every one of the tables held a deleted document before, and a
\* word posting was overwritten, not deleted.
C3_Witness ==
    /\ DeletedOnNonBulkPath
    /\ \A i \in 1..Len(PostingTables(committed)) :
            \E k \in DOMAIN PostingTables(committed)[i] :
                PostingTables(committed)[i][k] \cap documents_ids # {}
    /\ \E w \in DOMAIN index.word_docids :
            index.word_docids[w] # committed.word_docids[w]

\* C4: after execute, the geo structures the Geo criterion loads contain no
\* deleted document.
C4_GeoDisjointFromDeleted ==
    pc = "done" =>
        /\ GeoNew(index).allowed_candidates \cap documents_ids = {}
        /\ GeoNew(index).rtree \cap documents_ids = {}

\* C5: after execute, every word of the words FST occurs in the positions of
\* at least one retained document.
C5_FstWordsHaveRetainedDocument ==
    pc = "done" =>
        \A w \in index.words_fst :
            \E d \in LiveBefore \ documents_ids :
                <<d, w>> \in DOMAIN index.docid_word_positions

\* C5 witness: a word collected from two deleted documents left the FST while
\* another word stayed.
C5_Witness ==
    /\ DeletedOnNonBulkPath
    /\ index.words_fst # {}
    /\ \E i, j \in 1..Len(words) :
            /\ i # j
            /\ words[i].word = words[j].word
            /\ words[i].word \in committed.words_fst \ index.words_fst

\* C6: after execute, every prefix of the prefixes FST is a prefix of a word
\* of the words FST.
C6_FstPrefixesHaveRetainedWord ==
    pc = "done" =>
        \A p \in index.words_prefixes_fst :
            \E w \in index.words_fst : IsPrefix(p, w)

\* C6 witness: a prefix left the prefixes FST and another one stayed.
C6_Witness ==
    /\ DeletedOnNonBulkPath
    /\ index.words_prefixes_fst # {}
    /\ index.words_prefixes_fst # committed.words_prefixes_fst

\* The number of documents of the set S that contained the field before.
DocumentsWithField(S, name) ==
    Cardinality({d \in S : committed.fields_ids_map[name] \in DOMAIN committed.documents[d]})

\* C7: after execute, the field distribution counts, for every field name,
\* the retained documents that contain it, and holds no name with count zero.
C7_FieldDistributionExact ==
    pc = "done" =>
        LET retained == LiveBefore \ documents_ids
        IN /\ \A n \in DOMAIN committed.fields_ids_map :
                IF DocumentsWithField(retained, n) = 0
                THEN n \notin DOMAIN index.field_distribution
                ELSE /\ n \in DOMAIN index.field_distribution
                     /\ index.field_distribution[n] = DocumentsWithField(retained, n)
           /\ DOMAIN index.field_distribution \subseteq DOMAIN committed.fields_ids_map

\* C8: after execute on the non-bulk path, no document record and no word
\* position entry of a deleted document is left, and those of the retained
\* documents are unchanged.
C8_DocumentsAndPositionsRemoved ==
    DeletedOnNonBulkPath =>
        /\ \A d \in documents_ids :
            /\ d \notin DOMAIN index.documents
            /\ \A k \in DOMAIN index.docid_word_positions : k[1] # d
        /\ \A d \in LiveBefore \ documents_ids :
            /\ d \in DOMAIN index.documents
            /\ index.documents[d] = committed.documents[d]
            /\ \A k \in DOMAIN committed.docid_word_positions :
                k[1] = d =>
                    /\ k \in DOMAIN index.docid_word_positions
                    /\ index.docid_word_positions[k] = committed.docid_word_positions[k]

\* C8 witness: a document with word positions was deleted and another one
\* with word positions was retained.
C8_Witness ==
    /\ DeletedOnNonBulkPath
    /\ \E k \in DOMAIN committed.docid_word_positions : k[1] \in documents_ids
    /\ \E k \in DOMAIN index.docid_word_positions : k[1] \notin documents_ids

\* C9: after execute, the external id of no deleted document resolves, and
\* the external id of every retained document resolves to its DocumentId.
C9_ExternalIdsFollowDeletion ==
    pc = "done" =>
        /\ \A d \in LiveBefore \cap documents_ids :
            ExternalIdBefore(d) \notin DOMAIN index.external_documents_ids
        /\ \A d \in LiveBefore \ documents_ids :
            /\ ExternalIdBefore(d) \in DOMAIN index.external_documents_ids
            /\ index.external_documents_ids[ExternalIdBefore(d)] = d

\* C10: delete_external_id on an unknown id returns None and leaves the
\* pending set unchanged; on a known id it returns Some(docid) and the pending
\* set then contains docid.
C10_DeleteExternalIdResolves ==
    [][(pc' = "builder" /\ returned'.kind = "Option") =>
        LET id == returned'.arg
            map == committed.external_documents_ids
        IN IF id \in DOMAIN map
           THEN /\ returned'.v = Some(map[id])
                /\ documents_ids' = documents_ids \cup {map[id]}
           ELSE /\ returned'.v = None
                /\ (documents_ids' = documents_ids)]_vars

\* C10 witness: a miss on a builder that already holds a pending id, on an
\* index whose external ids map is not empty.
C10_Witness ==
    /\ pc = "builder"
    /\ returned.kind = "Option"
    /\ returned.v = None
    /\ documents_ids # {}
    /\ returned.arg \notin DOMAIN committed.external_documents_ids
    /\ committed.external_documents_ids # EmptyMap

\* An index that holds no document and no trace of one: every table, FST and
\* bitmap and the field distribution are empty.
IsClearedIndex(idx) ==
    /\ idx.documents_ids = {}
    /\ DOMAIN idx.documents = {}
    /\ DOMAIN idx.field_distribution = {}
    /\ DOMAIN idx.external_documents_ids = {}
    /\ DOMAIN idx.docid_word_positions = {}
    /\ \A i \in 1..Len(PostingTables(idx)) : DOMAIN PostingTables(idx)[i] = {}
    /\ DOMAIN idx.facet_id_string_docids = {}
    /\ idx.words_fst = {}
    /\ idx.words_prefixes_fst = {}
    /\ idx.field_id_docid_facet_f64s = {}
    /\ idx.field_id_docid_facet_strings = {}
    /\ \A f \in DOMAIN idx.number_faceted_documents_ids :
            idx.number_faceted_documents_ids[f] = {}
    /\ \A f \in DOMAIN idx.string_faceted_documents_ids :
            idx.string_faceted_documents_ids[f] = {}
    /\ idx.geo_faceted_documents_ids = {}
    /\ idx.geo_rtree = {}

\* C11: whenever |D| = |L| at the time of execute, the index after execute is
\* a cleared index.
C11_EqualSizesClearTheIndex ==
    (pc = "done" /\ Cardinality(documents_ids) = Cardinality(LiveBefore)) =>
        IsClearedIndex(index)

\* C11 witness: an index with geo-tagged, faceted documents was emptied by a
\* deletion of as many ids as it had documents.
C11_Witness ==
    /\ pc = "done"
    /\ Cardinality(documents_ids) = Cardinality(LiveBefore)
    /\ Cardinality(LiveBefore) > 1
    /\ committed.geo_rtree # {}
    /\ DOMAIN committed.facet_id_string_docids # {}
    /\ IsClearedIndex(index)

\* ------------------------------------------- claims on WordsLevelPositions
\* Until the caller commits, `levels_committed` holds the databases before
\* execute.

PositionsBefore == levels_committed.positions

\* The keys of a table at the given level, decoded.
KeysAtLevel(db, level) ==
    {StrLevelPositionCodecDecode(k) : k \in
        {x \in DOMAIN db : StrLevelPositionCodecDecode(x)[2] = level}}

\* The decoded keys of the entries the rebuild emitted at the given level.
EmittedAtLevel(level) ==
    {StrLevelPositionCodecDecode(entries[i][1]) : i \in
        {j \in DOMAIN entries : StrLevelPositionCodecDecode(entries[j][1])[2] = level}}

\* The number of level-0 entries of a word before the rebuild.
LevelZeroCount(word) == Cardinality({k \in KeysAtLevel(PositionsBefore, 0) : k[1] = word})

RECURSIVE Pow(_, _)
Pow(b, e) == IF e = 0 THEN 1 ELSE b * Pow(b, e - 1)

\* compute_positions_levels has run in this execute.
LevelsComputed == levels_pc \in {"computed", "cleared", "done", "failed"}

\* C12: after execute the positions table contains every level-0 entry it
\* contained before the rebuild, with the same key and posting, together
\* with the entries the rebuild computed.
C12_LevelZeroEntriesSurviveRebuild ==
    levels_pc = "done" =>
        /\ \A k \in DOMAIN PositionsBefore :
              StrLevelPositionCodecDecode(k)[2] = 0 =>
                  /\ k \in DOMAIN word_level_position_docids
                  /\ word_level_position_docids[k] = PositionsBefore[k]
        /\ \A i \in DOMAIN entries :
              /\ entries[i][1] \in DOMAIN word_level_position_docids
              /\ word_level_position_docids[entries[i][1]] = entries[i][2]

\* C13: for every word with N level-0 entries the rebuild emits entries at
\* level k >= 1 exactly for the k with floor(N / G^k) >= M.
C13_LevelsFollowLevelZeroCount ==
    LevelsComputed =>
        \A w \in LevelWords, k \in 1..5 :
            (\E key \in EmittedAtLevel(k) : key[1] = w) <=>
                (LevelZeroCount(w) \div Pow(level_group_size, k) >= min_level_size)

\* C14: one word with 30 level-0 entries, G = 4 and M = 5: the rebuild emits
\* level-1 entries that group every 4 level-0 entries, level-2 entries that
\* group every 16, and no level-3 entry.
C14_ThirtyEntriesGiveTwoLevels ==
    (/\ LevelsComputed
     /\ ClearNonZeroLevelsPositions(PositionsBefore) = ThirtyLevelZeroEntries
     /\ level_group_size = 4 /\ min_level_size = 5) =>
        /\ EmittedAtLevel(1) = {<<(<<97>>), 1, 4 * g, IF 4 * g + 3 < 29 THEN 4 * g + 3 ELSE 29>> :
                                   g \in 0..7}
        /\ EmittedAtLevel(2) = {<<(<<97>>), 2, 0, 15>>, <<(<<97>>), 2, 16, 29>>}
        /\ EmittedAtLevel(3) = {}

\* ------------------------------------------- claims on the documents batch

RECURSIVE LeadingMappings(_)
\* The elements of a sequence before its first element that is no mapping.
LeadingMappings(elements) ==
    IF elements = <<>> \/ Head(elements).t # "Object" THEN <<>>
    ELSE <<Head(elements)>> \o LeadingMappings(Tail(elements))

RECURSIVE WrittenOf(_)
\* The documents the calls handed to the writer, in order.
WrittenOf(calls) ==
    IF calls = <<>> THEN <<>>
    ELSE LET c == Head(calls)
             these == IF c.call = "add_raw_document" THEN <<[raw |-> TRUE, bytes |-> c.arg]>>
                      ELSE IF c.arg.t = "Object" THEN <<[raw |-> FALSE, document |-> c.arg]>>
                      ELSE IF c.arg.t = "Array"
                      THEN [i \in 1..Len(LeadingMappings(c.arg.a)) |->
                               [raw |-> FALSE, document |-> LeadingMappings(c.arg.a)[i]]]
                      ELSE <<>>
         IN these \o WrittenOf(Tail(calls))

\* Every call of add_documents and add_raw_document returned Ok.
AllAccepted == \A i \in DOMAIN added : added[i].ok

RECURSIVE ExpectedCount(_)
\* One per mapping, one per element of a sequence, one per raw document.
ExpectedCount(calls) ==
    IF calls = <<>> THEN 0
    ELSE (IF Head(calls).call = "add_raw_document" THEN 1
          ELSE IF Head(calls).arg.t = "Object" THEN 1
          ELSE Len(Head(calls).arg.a)) + ExpectedCount(Tail(calls))

\* The record of a written document under a dictionary: the obkv of its
\* top-level fields, each value as its JSON text.
RecordOf(w, idx) ==
    IF w.raw THEN w.bytes
    ELSE ObkvEncode(SortedFields(
             [f \in {g \in DOMAIN idx : \E j \in DOMAIN w.document.o : w.document.o[j][1] = idx[g]} |->
                 JsonToVec((CHOOSE m \in Range(w.document.o) : m[1] = idx[f])[2])]))

RECURSIVE RecordsEnd(_, _, _)
\* The position after n records that start at position, each behind its
\* 4-byte length.
RecordsEnd(bytes, position, n) ==
    IF n = 0 THEN position
    ELSE RecordsEnd(bytes, position + 4 + FromBE32(SubSeq(bytes, position + 1, position + 4)),
                    n - 1)

RECURSIVE SumOfLengths(_, _)
\* The sum over the written documents of 4 + the length of their record.
SumOfLengths(written, idx) ==
    IF written = <<>> THEN 0
    ELSE 4 + Len(RecordOf(Head(written), idx)) + SumOfLengths(Tail(written), idx)

\* C17: after any accepted adds and finish, the count a reader opened on the
\* result exposes is the number of mapping adds plus the number of elements
\* of the sequence adds plus the number of add_raw_document calls.
C17_ReaderCountsEveryDocument ==
    (reader.some /\ AllAccepted) => DocumentsReaderLen(reader.v) = ExpectedCount(added)

\* C17 witness: a reader over a batch built by a sequence add of two
\* documents and a raw add.
C17_Witness ==
    /\ reader.some /\ AllAccepted
    /\ \E i, j \in DOMAIN added :
          /\ added[i].call = "add_raw_document"
          /\ added[j].call = "add_documents" /\ added[j].arg.t = "Array"
          /\ Len(added[j].arg.a) = 2
    /\ DocumentsReaderLen(reader.v) = 3

\* C18: on a reader over a finished batch of n records, the k-th call of
\* next_document_with_index returns the k-th written record for k <= n, and
\* for k > n it returns None and reads nothing from the source.
C18_NextYieldsCountRecordsThenNone ==
    [][(batch_pc = "reading" /\ batch_result' # batch_result) =>
          (IF batch_result'.n <= DocumentsReaderLen(reader.v)
           THEN batch_result'.result =
                   Ok(Some([index |-> DocumentsReaderIndex(reader.v),
                            document |-> RecordOf(WrittenOf(added)[batch_result'.n],
                                                  DocumentsReaderIndex(reader.v))]))
           ELSE /\ batch_result'.result = Ok(None)
                /\ reader'.v.fetched = reader.v.fetched
                /\ reader'.v.position = reader.v.position)]_vars

\* C18 witness: a call past the end of a batch of two or more records
\* returned None.
C18_Witness ==
    /\ batch_pc = "reading"
    /\ batch_result.call = "next_document_with_index"
    /\ DocumentsReaderLen(reader.v) >= 2
    /\ batch_result.n > DocumentsReaderLen(reader.v)
    /\ batch_result.result = Ok(None)

\* C19: after finish the first 8 bytes of the sink are the big-endian offset
\* of the first byte past the last record, 8 + the sum of (4 + record
\* length), and the serialized metadata starts at that offset.
C19_OffsetPointsPastLastRecord ==
    batch_pc = "finished" =>
        LET offset == 8 + SumOfLengths(WrittenOf(added), batch_result.meta.index)
        IN /\ SubSeq(sink.bytes, 1, 8) = BE64(offset)
           /\ RecordsEnd(sink.bytes, 8, Len(WrittenOf(added))) = offset
           /\ \E order \in Orderings(DOMAIN batch_result.meta.index) :
                 Skip(sink.bytes, offset) = BincodeSerialize(batch_result.meta, order)

\* C19 witness: finish after a document and a raw document.
C19_Witness ==
    /\ batch_pc = "finished"
    /\ Len(WrittenOf(added)) >= 2
    /\ \E i \in DOMAIN added : added[i].call = "add_raw_document"
    /\ FromBE64(SubSeq(sink.bytes, 1, 8)) > 16

\* C20: every record read back for a document given to add_documents has as
\* fields exactly the top-level keys of the document, through the index of
\* the batch, and each value decodes to the value the document has there.
C20_WriteThenReadRoundTrip ==
    (/\ batch_result.call = "next_document_with_index"
     /\ batch_result.n <= Len(WrittenOf(added))
     /\ ~WrittenOf(added)[batch_result.n].raw) =>
        /\ batch_result.result.kind = "Ok"
        /\ batch_result.result.v.some
        /\ LET fields == ObkvDecode(batch_result.result.v.v.document)
               idx == batch_result.result.v.v.index
               members == WrittenOf(added)[batch_result.n].document.o
           IN /\ Len(fields) = Len(members)
              /\ \A i \in DOMAIN fields : fields[i][1] \in DOMAIN idx
              /\ {idx[fields[i][1]] : i \in DOMAIN fields} = {members[j][1] : j \in DOMAIN members}
              /\ \A i \in DOMAIN fields : \A j \in DOMAIN members :
                    members[j][1] = idx[fields[i][1]] =>
                        JsonFromSlice(fields[i][2]) = Some(members[j][2])

\* C20 witness: the document with a nested object and array was read back.
C20_Witness ==
    /\ batch_result.call = "next_document_with_index"
    /\ batch_result.n <= Len(WrittenOf(added))
    /\ ~WrittenOf(added)[batch_result.n].raw
    /\ WrittenOf(added)[batch_result.n].document = DocumentB
    /\ batch_result.result.kind = "Ok"
    /\ batch_result.result.v.some
    /\ \E i \in DOMAIN ObkvDecode(batch_result.result.v.v.document) :
          JsonFromSlice(ObkvDecode(batch_result.result.v.v.document)[i][2]) =
              Some(DocumentB.o[2][2])

\* The names of an index.
Names(idx) == {idx[f] : f \in DOMAIN idx}

\* The top-level keys of the documents add_documents wrote, with the names
\* of the index the builder was given.
DistinctKeys ==
    Names(given_index)
        \cup UNION {{WrittenOf(added)[i].document.o[j][1] :
                        j \in DOMAIN WrittenOf(added)[i].document.o} :
                    i \in {k \in DOMAIN WrittenOf(added) : ~WrittenOf(added)[k].raw}}

\* A FieldId -> name map that is one-to-one and names exactly the keys of S.
IsBijectionOnto(idx, S) ==
    /\ \A f, g \in DOMAIN idx : idx[f] = idx[g] => f = g
    /\ Names(idx) = S
    /\ Cardinality(DOMAIN idx) = Cardinality(S)

\* C21: after any sequence of adds the index of the batch is a bijection
\* between FieldIds and the distinct top-level keys seen (with the fields
\* given at the start), a field of the given index keeps its FieldId, and
\* the index read back has as many entries as there are distinct keys.
C21_IndexIsBijection ==
    /\ builder.some =>
          /\ IsBijectionOnto(builder.v.index, DistinctKeys)
          /\ \A f \in DOMAIN given_index : builder.v.index[f] = given_index[f]
    /\ reader.some =>
          /\ IsBijectionOnto(DocumentsReaderIndex(reader.v), DistinctKeys)
          /\ \A f \in DOMAIN given_index : DocumentsReaderIndex(reader.v)[f] = given_index[f]

\* C21 witness: a reader over a batch whose builder was given "id" and then
\* got two documents that share the key "id" and bring two other keys.
C21_Witness ==
    /\ reader.some
    /\ given_index # <<>>
    /\ Cardinality(DistinctKeys) = 3
    /\ Cardinality({i \in DOMAIN WrittenOf(added) :
                       /\ ~WrittenOf(added)[i].raw
                       /\ \E j \in DOMAIN WrittenOf(added)[i].document.o :
                             WrittenOf(added)[i].document.o[j][1] = <<105, 100>>}) >= 2
    /\ Cardinality(DOMAIN DocumentsReaderIndex(reader.v)) = 3

\* A value add_documents must refuse: a scalar, or a sequence that holds a
\* sequence.
IsInvalidDocumentFormat(value) ==
    IF value.t = "Array" THEN \E i \in DOMAIN value.a : value.a[i].t = "Array"
    ELSE value.t # "Object"

\* C22: add_documents on a scalar or on a sequence that contains a sequence
\* returns the error InvalidDocumentFormat.
C22_InvalidDocumentFormat ==
    (/\ batch_result.call = "add_documents"
     /\ IsInvalidDocumentFormat(added[Len(added)].arg)) =>
        batch_result.result = Err("InvalidDocumentFormat")

\* C22 witness: add_documents refused a sequence that holds a sequence,
\* after it had refused a scalar.
C22_Witness ==
    /\ batch_result.call = "add_documents"
    /\ Len(added) = 2
    /\ added[1].arg.t = "Number" /\ ~added[1].ok
    /\ added[2].arg.t = "Array" /\ IsInvalidDocumentFormat(added[2].arg)
    /\ batch_result.result = Err("InvalidDocumentFormat")


\* The cursors open after the first n calls of the log.
OpenCursors(log, n) ==
    Cardinality({i \in 1..n : log[i].op = "open"})
        - Cardinality({i \in 1..n : log[i].op = "drop"})

RECURSIVE CursorDiscipline(_, _, _)
\* The calls of the log from the n-th on keep the discipline, `cursor` being
\* the cursor that is open before the n-th call: a cursor is taken only when
\* none is open, del_current, put_current and drop are issued on the open
\* cursor, every other write when none is open.
CursorDiscipline(log, n, cursor) ==
    IF n > Len(log) THEN TRUE
    ELSE CASE log[n].op = "open" ->
                ~cursor.some /\ CursorDiscipline(log, n + 1, Some(log[n].db))
           [] log[n].op = "drop" ->
                cursor = Some(log[n].db) /\ CursorDiscipline(log, n + 1, None)
           [] log[n].op \in {"del_current", "put_current"} ->
                cursor = Some(log[n].db) /\ CursorDiscipline(log, n + 1, cursor)
           [] OTHER ->
                ~cursor.some /\ CursorDiscipline(log, n + 1, cursor)

\* C23: during execute at most one cursor is open at any time; while a cursor
\* is open the only writes are del_current / put_current on that cursor, and
\* every other write (Index::put_*, clear) is issued when no cursor is open.
C23_CursorDiscipline == CursorDiscipline(store_ops, 1, None)

\* C23 witness: an execute that ran to its end having deleted and overwritten
\* entries through cursors and written the main database in between.
C23_Witness ==
    /\ pc = "done"
    /\ \E i, j, k \in 1..Len(store_ops) :
          /\ i < j /\ j < k
          /\ store_ops[i].op = "del_current"
          /\ store_ops[j] = StoreOp("put", "main")
          /\ store_ops[k].op = "put_current"
    /\ OpenCursors(store_ops, Len(store_ops)) = 0


\* FilterCondition `label = value`: the docids of the level-zero entry of the
\* value, none when the map has no such entry.
FilterLabelEquals(idx, value) ==
    LET key == [level |-> 0, field_id |-> FieldId("label"), value |-> value]
    IN IF key \in DOMAIN idx.facet_id_string_docids
       THEN idx.facet_id_string_docids[key].docids ELSE {}

\* C24: after deletion every entry of the string facet map, group key or
\* level-zero key, has a non-empty posting disjoint from D and is an entry of
\* before with the same key and the same bounds / original string, whose
\* posting is the former one minus D; a filter on a value that only deleted
\* documents had returns no document.
C24_StringFacetsAfterDeletion ==
    pc = "done" =>
        /\ \A k \in DOMAIN index.facet_id_string_docids :
              LET now == index.facet_id_string_docids[k]
              IN /\ now.docids # {}
                 /\ now.docids \cap documents_ids = {}
                 /\ k \in DOMAIN committed.facet_id_string_docids
                 /\ now.head = committed.facet_id_string_docids[k].head
                 /\ now.docids = committed.facet_id_string_docids[k].docids \ documents_ids
        /\ \A k \in DOMAIN committed.facet_id_string_docids :
              (k.level = 0 /\ committed.facet_id_string_docids[k].docids \subseteq documents_ids)
                  => FilterLabelEquals(index, k.value) = {}

\* C24 witness: on the non-bulk path a level-zero entry was deleted with its
\* last document, another was rewritten, and the group entry over both was
\* rewritten and kept its bounds.
C24_Witness ==
    /\ DeletedOnNonBulkPath
    /\ \E k \in DOMAIN committed.facet_id_string_docids :
          k.level = 0 /\ k \notin DOMAIN index.facet_id_string_docids
    /\ \E k \in DOMAIN index.facet_id_string_docids :
          /\ k.level = 0
          /\ index.facet_id_string_docids[k] # committed.facet_id_string_docids[k]
    /\ \E k \in DOMAIN index.facet_id_string_docids :
          /\ k.level = 1
          /\ index.facet_id_string_docids[k] # committed.facet_id_string_docids[k]


\* C26: the entries the rebuild accumulates for the append-only writer are in
\* strictly increasing key order, hence hold each key once, and their keys
\* are the keys of the table the rebuild read.
C26_EntriesStrictlyIncreasing ==
    LevelsComputed =>
        /\ \A i \in 1..(Len(entries) - 1) : LexLess(entries[i][1], entries[i + 1][1])
        /\ {entries[i][1] : i \in DOMAIN entries}
              = DOMAIN ClearNonZeroLevelsPositions(PositionsBefore)

\* C26 witness: the rebuild of a table with two words, one of them with two
\* level-0 entries, and a stale level-1 entry, with the smallest group size
\* and level size.
C26_Witness ==
    /\ levels_pc = "computed"
    /\ level_group_size = 2 /\ min_level_size = 1
    /\ KeysAtLevel(PositionsBefore, 1) # {}
    /\ \E i, j, k \in DOMAIN entries :
          /\ i < j /\ j < k
          /\ StrLevelPositionCodecDecode(entries[i][1])[1] = <<97>>
          /\ StrLevelPositionCodecDecode(entries[j][1])[1] = <<97>>
          /\ StrLevelPositionCodecDecode(entries[k][1])[1] = <<97, 98>>


\* execute has not reached its final phase, or stopped before it.
BeforeFinalPhase == levels_pc \in {"levels_cleared", "computed", "stopped"}

\* C27 (as claimed): no write reaches the store before the final
\* clear-and-append phase; when the build stops earlier the store content is
\* the content before execute.
C27_NoWriteBeforeFinalPhase ==
    BeforeFinalPhase =>
        /\ word_level_position_docids = levels_committed.positions
        /\ facet_field_id_value_docids = levels_committed.facets

\* C27 (amended): before the final phase execute only deletes entries above
\* level 0 from the positions table, in the caller's write transaction: the
\* level-0 entries and the facet database are as before, nothing is added,
\* and once clear_non_zero_levels_positions is through no entry above level 0
\* is left. The committed store does not change before the caller commits.
C27_OnlyUpperLevelsDeletedBeforeFinalPhase ==
    /\ BeforeFinalPhase =>
          /\ \A k \in DOMAIN levels_committed.positions :
                StrLevelPositionCodecDecode(k)[2] = 0 =>
                    /\ k \in DOMAIN word_level_position_docids
                    /\ word_level_position_docids[k] = levels_committed.positions[k]
          /\ DOMAIN word_level_position_docids \subseteq DOMAIN levels_committed.positions
          /\ facet_field_id_value_docids = levels_committed.facets
    /\ levels_pc \in {"levels_cleared", "computed"} =>
          \A k \in DOMAIN word_level_position_docids : StrLevelPositionCodecDecode(k)[2] = 0
    /\ levels_pc = "aborted" =>
          /\ word_level_position_docids = levels_committed.positions
          /\ facet_field_id_value_docids = levels_committed.facets

\* C27 witness: the build stopped while computing the levels, after the entry
\* above level 0 was deleted from a table that keeps its level-0 entries.
C27_Witness ==
    /\ levels_pc = "stopped"
    /\ word_level_position_docids # levels_committed.positions
    /\ word_level_position_docids # EmptyMap
    /\ entries = <<>>


C29_ReturnsNumberOfRemovedDocuments ==
    DeletedOnNonBulkPath =>
        returned = Ok(Cardinality(LiveBefore \cap documents_ids))



\* C30: among the buckets next returns between two pulls of the parent, every
\* document is one of the parent's candidates (within filtered_candidates
\* when given), none is in the excluded candidates of the call that returned
\* it, and none is returned twice.
C30_GeoBucketsWithinParentCandidates ==
    /\ \A i \in DOMAIN buckets :
          /\ pulled.some
          /\ buckets[i] \subseteq pulled.v
          /\ \A j \in DOMAIN buckets : i # j => buckets[i] \cap buckets[j] = {}
    /\ (geo_pc = "idle" /\ buckets # <<>>) =>
          /\ geo_result.result = Ok(Some([query_tree |-> None,
                                          candidates |-> Some(buckets[Len(buckets)]),
                                          filtered_candidates |-> None,
                                          bucket_candidates |-> Some(geo.bucket_candidates)]))
          /\ buckets[Len(buckets)] \cap excluded_candidates = {}

\* C30 witness: two documents returned in two buckets after one result of the
\* parent, the second while the first was excluded, and a document with a
\* geo point that is no candidate of the parent.
C30_Witness ==
    /\ geo_pc = "idle"
    /\ Len(buckets) = 2
    /\ buckets[1] # {} /\ buckets[2] # {}
    /\ excluded_candidates = buckets[1]
    /\ geo.candidates = <<>>

====
